---- MODULE Spec2Model ----
(***************************************************************************)
(* A model of scripts/compress.ts, the Context Compress CLI.               *)
(*                                                                         *)
(* Text is modelled by TLA+ strings, character for character: a file is    *)
(* the string of its content, a line break is "\n".  The pure functions    *)
(* of the script (parseSections, slugify, serializeSections,               *)
(* stripExistingMarker, classifySection, ...) are operators that compute   *)
(* what the regular expressions of the script compute.  The three          *)
(* workflows are state machines over a model of the file system, one       *)
(* action per file-system step, so that a run can be terminated between    *)
(* two steps.                                                              *)
(*                                                                         *)
(* Specifications: Spec is the whole program (all three workflows, with    *)
(* and without --dry-run); SpecMemory, SpecBootstrap and SpecSkills run    *)
(* one workflow each and let a process be terminated; SpecArchive lets the *)
(* agent write a daily file between two runs of memory consolidation;      *)
(* SpecFailure lets a file operation throw; SpecValidate runs memory       *)
(* consolidation and bootstrap compression on files that exceed the size   *)
(* ceilings; SpecStrip, SpecParse and SpecClassify call one function of    *)
(* the script on inputs of a pool.                                         *)
(* The variables log and hist record what the processes did (file          *)
(* operations and warnings): they are history, the script reads neither.   *)
(*                                                                         *)
(* Characters: the whitespace class \s is {space, tab, \n, \r}; the inputs *)
(* the specifications draw hold no other whitespace and no "\r".  They are *)
(* written in ASCII, but for one bootstrap file that holds an ideograph, a *)
(* character of three bytes in UTF-8.                                      *)
(***************************************************************************)
EXTENDS Integers, Sequences, FiniteSets, TLC

\* ------------------------------------------------------------------------
\* Strings
\* ------------------------------------------------------------------------

Ch(s, i) == SubSeq(s, i, i)

From(s, i) == IF i > Len(s) THEN "" ELSE SubSeq(s, i, Len(s))

Upto(s, j) == IF j < 1 THEN "" ELSE SubSeq(s, 1, j)

StartsAt(s, i, m) ==
    /\ i >= 1
    /\ i + Len(m) - 1 <= Len(s)
    /\ SubSeq(s, i, i + Len(m) - 1) = m

\* The positions >= i at which m occurs in s.
Occurrences(s, m, i) ==
    { j \in i..(Len(s) - Len(m) + 1) : SubSeq(s, j, j + Len(m) - 1) = m }

\* The first position >= i at which m occurs in s, 0 when there is none.
IndexFrom(s, m, i) ==
    LET occ == Occurrences(s, m, i)
    IN  IF occ = {} THEN 0 ELSE CHOOSE j \in occ : \A k \in occ : j <= k

\* The least number of a set of numbers that is not empty.
Least(S) == CHOOSE j \in S : \A k \in S : j <= k

Includes(s, m) == \E j \in 1..(Len(s) - Len(m) + 1) : SubSeq(s, j, j + Len(m) - 1) = m

IsSpace(c) == c \in {" ", "\t", "\n", "\r"}

\* The first position >= i of s that holds no whitespace (Len(s) + 1 if none).
RECURSIVE SkipSpace(_, _)
SkipSpace(s, i) ==
    IF i > Len(s) THEN i
    ELSE IF IsSpace(Ch(s, i)) THEN SkipSpace(s, i + 1)
    ELSE i

\* The last position <= j of s that holds no whitespace (0 if none).
RECURSIVE LastNonSpace(_, _)
LastNonSpace(s, j) ==
    IF j < 1 THEN 0
    ELSE IF IsSpace(Ch(s, j)) THEN LastNonSpace(s, j - 1)
    ELSE j

\* String.prototype.trimEnd
TrimEnd(s) == Upto(s, LastNonSpace(s, Len(s)))

\* String.prototype.trim
Trim(s) == From(TrimEnd(s), SkipSpace(TrimEnd(s), 1))

\* String.prototype.split("\n")
RECURSIVE SplitFrom(_, _)
SplitFrom(s, start) ==
    LET i == IndexFrom(s, "\n", start)
    IN  IF i = 0 THEN << From(s, start) >>
        ELSE << SubSeq(s, start, i - 1) >> \o SplitFrom(s, i + 1)

SplitLines(s) == SplitFrom(s, 1)

\* Array.prototype.join
RECURSIVE Join(_, _)
Join(parts, sep) ==
    IF parts = << >> THEN ""
    ELSE IF Len(parts) = 1 THEN parts[1]
    ELSE parts[1] \o sep \o Join(Tail(parts), sep)

\* n times the text s.
RECURSIVE Times(_, _)
Times(s, n) ==
    IF n = 0 THEN ""
    ELSE LET half == Times(s, n \div 2)
         IN  half \o half \o (IF n % 2 = 1 THEN s ELSE "")

UpperAlpha == "ABCDEFGHIJKLMNOPQRSTUVWXYZ"
LowerAlpha == "abcdefghijklmnopqrstuvwxyz"
Digits == "0123456789"

UpperSet == { Ch(UpperAlpha, i) : i \in 1..Len(UpperAlpha) }
LowerSet == { Ch(LowerAlpha, i) : i \in 1..Len(LowerAlpha) }
DigitSet == { Ch(Digits, i) : i \in 1..Len(Digits) }

LowerOf == [c \in UpperSet |-> Ch(LowerAlpha, IndexFrom(UpperAlpha, c, 1))]
UpperOf == [c \in LowerSet |-> Ch(UpperAlpha, IndexFrom(LowerAlpha, c, 1))]

LowerCh(c) == IF c \in UpperSet THEN LowerOf[c] ELSE c

UpperCh(c) == IF c \in LowerSet THEN UpperOf[c] ELSE c

\* s from position i on, in lower case: the text up to the next upper-case
\* letter stays, that letter is mapped, and so on from there.
RECURSIVE MapLower(_, _)
MapLower(s, i) ==
    LET hits == { j \in i..Len(s) : Ch(s, j) \in UpperSet }
    IN  IF hits = {} THEN From(s, i)
        ELSE SubSeq(s, i, Least(hits) - 1) \o LowerCh(Ch(s, Least(hits)))
               \o MapLower(s, Least(hits) + 1)

RECURSIVE MapUpper(_, _)
MapUpper(s, i) ==
    LET hits == { j \in i..Len(s) : Ch(s, j) \in LowerSet }
    IN  IF hits = {} THEN From(s, i)
        ELSE SubSeq(s, i, Least(hits) - 1) \o UpperCh(Ch(s, Least(hits)))
               \o MapUpper(s, Least(hits) + 1)

\* String.prototype.toLowerCase / toUpperCase
ToLowerCase(s) == MapLower(s, 1)
ToUpperCase(s) == MapUpper(s, 1)

IsDigit(c) == c \in DigitSet
IsLowerAlnum(c) == c \in LowerSet \/ IsDigit(c)

\* ------------------------------------------------------------------------
\* Markdown parser (compress.ts, "Markdown Parser")
\* ------------------------------------------------------------------------

\* content.match(/^---\r?\n[\s\S]*?\r?\n---\r?\n?/): the text after the
\* front-matter block, the whole text when there is none.
stripFrontmatter(content) ==
    IF ~StartsAt(content, 1, "---\n") THEN content
    ELSE LET p == IndexFrom(content, "\n---", 5)
         IN  IF p = 0 THEN content
             ELSE IF StartsAt(content, p + 4, "\n") THEN From(content, p + 5)
             ELSE From(content, p + 4)

NoMatch == [ok |-> FALSE, text |-> "", key |-> ""]

\* /^<lead>\s+(.+)/ on a line whose lead ends before position i: the
\* capture, trimmed.  \s+ is greedy; when nothing follows the whitespace it
\* gives its last character back to (.+), whose trim is then empty.
AfterSpace(line, i) ==
    LET k == SkipSpace(line, i)
    IN  IF k = i THEN NoMatch
        ELSE IF k <= Len(line) THEN [ok |-> TRUE, text |-> Trim(From(line, k)), key |-> ""]
        ELSE IF k - i >= 2 THEN [ok |-> TRUE, text |-> "", key |-> ""]
        ELSE NoMatch

\* line.match(/^##\s+(.+)/), headerMatch[1].trim()
HeaderMatch(line) ==
    IF StartsAt(line, 1, "##") THEN AfterSpace(line, 3) ELSE NoMatch

\* line.match(/^[-*]\s+(.+)/), bulletMatch[1].trim()
BulletMatch(line) ==
    IF Len(line) >= 1 /\ Ch(line, 1) \in {"-", "*"} THEN AfterSpace(line, 2) ELSE NoMatch

\* The first position >= i of s that holds "*" (Len(s) + 1 if none).
RECURSIVE SkipNonStar(_, _)
SkipNonStar(s, i) ==
    IF i > Len(s) THEN i
    ELSE IF Ch(s, i) = "*" THEN i
    ELSE SkipNonStar(s, i + 1)

\* The first position >= i of s that holds neither ":" nor whitespace.
RECURSIVE SkipColonSpace(_, _)
SkipColonSpace(s, i) ==
    IF i > Len(s) THEN i
    ELSE IF Ch(s, i) = ":" \/ IsSpace(Ch(s, i)) THEN SkipColonSpace(s, i + 1)
    ELSE i

\* str.replace(/:$/, "")
DropLastColon(s) ==
    IF Len(s) >= 1 /\ Ch(s, Len(s)) = ":" THEN Upto(s, Len(s) - 1) ELSE s

\* line.match(/^[-*]\s+\*\*([^*]+?):?\*\*[:\s]*(.+)?/):
\* key = fieldMatch[1].trim().replace(/:$/, ""), text = (fieldMatch[2] || "").trim().
\* ([^*]+?) is lazy: it leaves a final ":" of the label to the optional ":".
FieldMatch(line) ==
    IF ~(Len(line) >= 1 /\ Ch(line, 1) \in {"-", "*"}) THEN NoMatch
    ELSE LET k    == SkipSpace(line, 2)
             r0   == k + 2
             rEnd == SkipNonStar(line, r0)
             n    == IF rEnd - r0 >= 2 /\ Ch(line, rEnd - 1) = ":"
                     THEN rEnd - r0 - 1 ELSE rEnd - r0
         IN  IF k = 2 \/ ~StartsAt(line, k, "**") THEN NoMatch
             ELSE IF rEnd = r0 \/ ~StartsAt(line, rEnd, "**") THEN NoMatch
             ELSE [ok   |-> TRUE,
                   key  |-> DropLastColon(Trim(SubSeq(line, r0, r0 + n - 1))),
                   text |-> Trim(From(line, SkipColonSpace(line, rEnd + 2)))]

\* A field list is the own enumerable string-keyed properties of the
\* JavaScript object sec.fields, in the order Object.entries gives them:
\* array-index keys ("0", "7", "12") in ascending numeric order first, then
\* every other key in insertion order.
RECURSIVE NatOf(_, _)
NatOf(s, acc) ==
    IF s = "" THEN acc
    ELSE NatOf(From(s, 2), 10 * acc + (IndexFrom(Digits, Ch(s, 1), 1) - 1))

RECURSIVE AllDigits(_)
AllDigits(s) == s = "" \/ (IsDigit(Ch(s, 1)) /\ AllDigits(From(s, 2)))

\* A canonical array index (keys of up to 9 digits; the limit is 2^32 - 2).
IsArrayIndex(k) ==
    /\ Len(k) >= 1
    /\ Len(k) <= 9
    /\ AllDigits(k)
    /\ (Len(k) = 1 \/ Ch(k, 1) # "0")

HasKey(fields, key) == \E i \in 1..Len(fields) : fields[i].k = key

\* The number of leading entries of fields that keep their place before a
\* new array-index key.
RECURSIVE IndexSlot(_, _, _)
IndexSlot(fields, key, i) ==
    IF i > Len(fields) THEN Len(fields)
    ELSE IF IsArrayIndex(fields[i].k) /\ NatOf(fields[i].k, 0) < NatOf(key, 0)
         THEN IndexSlot(fields, key, i + 1)
         ELSE i - 1

\* current.fields[key] = val
SetField(fields, key, val) ==
    IF key = "__proto__" THEN fields
    ELSE IF HasKey(fields, key)
         THEN [i \in 1..Len(fields) |->
                  IF fields[i].k = key THEN [k |-> key, v |-> val] ELSE fields[i]]
    ELSE IF IsArrayIndex(key)
         THEN LET n == IndexSlot(fields, key, 1)
              IN  SubSeq(fields, 1, n) \o << [k |-> key, v |-> val] >>
                    \o SubSeq(fields, n + 1, Len(fields))
    ELSE Append(fields, [k |-> key, v |-> val])

NewSection(header) ==
    [header |-> header, fields |-> << >>, bullets |-> << >>, prose |-> ""]

\* One turn of the loop over the lines: st.cur is the open Section, as a
\* sequence of length 0 (null) or 1.
ParseLine(st, line) ==
    LET h == HeaderMatch(line)
        f == FieldMatch(line)
        b == BulletMatch(line)
        t == Trim(line)
        c == st.cur[1]
    IN  IF h.ok THEN [sections |-> st.sections \o st.cur,
                      cur      |-> << NewSection(h.text) >>]
        ELSE IF st.cur = << >> THEN st
        ELSE IF f.ok THEN
            [st EXCEPT !.cur = << [c EXCEPT !.fields = SetField(c.fields, f.key, f.text)] >>]
        ELSE IF b.ok THEN
            [st EXCEPT !.cur = << [c EXCEPT !.bullets = Append(c.bullets, b.text)] >>]
        ELSE IF t # "" THEN
            [st EXCEPT !.cur = << [c EXCEPT !.prose =
                                      c.prose \o (IF c.prose # "" THEN " " ELSE "") \o t] >>]
        ELSE st

RECURSIVE ParseLines(_, _, _)
ParseLines(lines, i, st) ==
    IF i > Len(lines) THEN st.sections \o st.cur
    ELSE ParseLines(lines, i + 1, ParseLine(st, lines[i]))

parseSections(content) ==
    ParseLines(SplitLines(stripFrontmatter(content)), 1,
               [sections |-> << >>, cur |-> << >>])


\* ------------------------------------------------------------------------
\* Serializer (slugify, slugifyValue, serializeSections, stripExistingMarker)
\* ------------------------------------------------------------------------

\* str.replace(/[*_<backquote>#\[\]()]/g, ""); a TLA+ string cannot hold the
\* backquote, and no input of the specifications holds one.
RECURSIVE StripPunct(_)
StripPunct(s) ==
    LET hits == { j \in 1..Len(s) : Ch(s, j) \in {"*", "_", "#", "[", "]", "(", ")"} }
    IN  IF hits = {} THEN s
        ELSE Upto(s, Least(hits) - 1) \o StripPunct(From(s, Least(hits) + 1))

\* str.replace(/\s+/g, "-")
RECURSIVE SpaceToHyphen(_)
SpaceToHyphen(s) ==
    LET hits == { j \in 1..Len(s) : IsSpace(Ch(s, j)) }
    IN  IF hits = {} THEN s
        ELSE Upto(s, Least(hits) - 1) \o "-"
               \o SpaceToHyphen(From(s, SkipSpace(s, Least(hits))))

\* str.replace(/[^a-z0-9-]/g, "")
RECURSIVE KeepSlugChars(_)
KeepSlugChars(s) ==
    LET hits == { j \in 1..Len(s) : ~(IsLowerAlnum(Ch(s, j)) \/ Ch(s, j) = "-") }
    IN  IF hits = {} THEN s
        ELSE Upto(s, Least(hits) - 1) \o KeepSlugChars(From(s, Least(hits) + 1))

\* str.replace(/-+/g, "-")
RECURSIVE CollapseHyphens(_)
CollapseHyphens(s) ==
    LET hits == { j \in 1..Len(s) : Ch(s, j) = "-" /\ StartsAt(s, j + 1, "-") }
    IN  IF hits = {} THEN s
        ELSE Upto(s, Least(hits) - 1) \o CollapseHyphens(From(s, Least(hits) + 1))

\* str.replace(/^-|-$/g, "")
TrimHyphens(s) ==
    LET a == IF StartsAt(s, 1, "-") THEN From(s, 2) ELSE s
    IN  IF Len(a) >= 1 /\ Ch(a, Len(a)) = "-" THEN Upto(a, Len(a) - 1) ELSE a

slugify(text) ==
    TrimHyphens(CollapseHyphens(KeepSlugChars(SpaceToHyphen(StripPunct(ToLowerCase(text))))))

slugifyValue(text) == Trim(SpaceToHyphen(StripPunct(text)))

StartMarker(tag) == "<!-- " \o tag \o "-START -->"
EndMarker(tag) == "<!-- " \o tag \o "-END -->"

RECURSIVE FieldEntries(_)
FieldEntries(fields) ==
    IF fields = << >> THEN << >>
    ELSE << slugify(fields[1].k) \o ":" \o slugifyValue(fields[1].v) >>
           \o FieldEntries(Tail(fields))

RECURSIVE BulletEntries(_)
BulletEntries(bullets) ==
    IF bullets = << >> THEN << >>
    ELSE << slugifyValue(bullets[1]) >> \o BulletEntries(Tail(bullets))

\* sec.prose.slice(0, 120)
ProseCut == 120

\* The entries of a group that always end with the prose.
SectionEntries_proseAlways(sec) ==
    LET e == FieldEntries(sec.fields) \o BulletEntries(sec.bullets)
    IN  IF sec.prose # ""
        THEN Append(e, slugifyValue(Upto(sec.prose, IF Len(sec.prose) < ProseCut
                                                    THEN Len(sec.prose) ELSE ProseCut)))
        ELSE e

\* The entries of one Section's group.
SectionEntries(sec) ==
    LET e == FieldEntries(sec.fields) \o BulletEntries(sec.bullets)
    IN  IF e = << >> /\ sec.prose # ""
        THEN << slugifyValue(Upto(sec.prose, IF Len(sec.prose) < ProseCut
                                             THEN Len(sec.prose) ELSE ProseCut)) >>
        ELSE e

RECURSIVE SerializeGroups(_)
SerializeGroups(sections) ==
    IF sections = << >> THEN ""
    ELSE LET sec == sections[1]
             e   == SectionEntries(sec)
         IN  (IF e # << >>
              THEN "|" \o ToUpperCase(slugify(sec.header)) \o ":{" \o Join(e, ",") \o "}"
              ELSE "")
             \o SerializeGroups(Tail(sections))

\* A serializer that starts a new line after the title.
serializeSections_titleLine(tag, title, sections) ==
    StartMarker(tag) \o "[" \o title \o "]\n" \o SerializeGroups(sections) \o EndMarker(tag)

serializeSections(tag, title, sections) ==
    StartMarker(tag) \o "[" \o title \o "]" \o SerializeGroups(sections) \o EndMarker(tag)

\* content.replace(/\n?<!-- TAG-START -->.*?<!-- TAG-END -->\n?/gs, "\n"):
\* the leftmost match first, the span up to the nearest end marker, then on
\* from the end of the match.  The tags of the script hold no character that
\* is special in a regular expression.
\* A replacement of the first marker span only.
ReplaceMarkerSpans_firstOnly(s, i, tag) ==
    LET ms == IndexFrom(s, StartMarker(tag), i)
        e  == IF ms = 0 THEN 0
              ELSE IndexFrom(s, EndMarker(tag), ms + Len(StartMarker(tag)))
        begin == IF ms > i /\ Ch(s, ms - 1) = "\n" THEN ms - 1 ELSE ms
        after == e + Len(EndMarker(tag))
    IN  IF e = 0 THEN From(s, i)
        ELSE SubSeq(s, i, begin - 1) \o "\n"
               \o From(s, IF StartsAt(s, after, "\n") THEN after + 1 ELSE after)

RECURSIVE ReplaceMarkerSpans(_, _, _)
ReplaceMarkerSpans(s, i, tag) ==
    LET ms == IndexFrom(s, StartMarker(tag), i)
        e  == IF ms = 0 THEN 0
              ELSE IndexFrom(s, EndMarker(tag), ms + Len(StartMarker(tag)))
        begin == IF ms > i /\ Ch(s, ms - 1) = "\n" THEN ms - 1 ELSE ms
        after == e + Len(EndMarker(tag))
    IN  IF e = 0 THEN From(s, i)
        ELSE SubSeq(s, i, begin - 1) \o "\n"
               \o ReplaceMarkerSpans(s, IF StartsAt(s, after, "\n")
                                        THEN after + 1 ELSE after, tag)

\* The first position >= i of s that holds no "\n".
RECURSIVE SkipNewlines(_, _)
SkipNewlines(s, i) ==
    IF i > Len(s) THEN i
    ELSE IF Ch(s, i) = "\n" THEN SkipNewlines(s, i + 1)
    ELSE i

\* str.replace(/\n{3,}/g, "\n\n")
RECURSIVE CollapseNewlines(_)
CollapseNewlines(s) ==
    LET p == IndexFrom(s, "\n\n\n", 1)
    IN  IF p = 0 THEN s
        ELSE Upto(s, p - 1) \o "\n\n" \o CollapseNewlines(From(s, SkipNewlines(s, p)))

\* A strip that leaves the whitespace at the end.
stripExistingMarker_noTrim(content, tag) ==
    CollapseNewlines(ReplaceMarkerSpans(content, 1, tag))

stripExistingMarker(content, tag) ==
    TrimEnd(CollapseNewlines(ReplaceMarkerSpans(content, 1, tag)))

\* ------------------------------------------------------------------------
\* Category classification
\* ------------------------------------------------------------------------

\* type Category, in the order of its declaration, which is the order of the
\* keys of CATEGORY_PATTERNS.
Categories ==
    << "preferences", "decisions", "facts", "entities", "lessons", "todos", "opinions" >>

CategorySet == { Categories[i] : i \in 1..Len(Categories) }

\* CATEGORY_PATTERNS: each pattern is an alternation; an alternative is the
\* sequence of its literal parts, two parts standing for <part>.?<part>.
CATEGORY_PATTERNS ==
    [ preferences |-> << <<"prefer">>, <<"style">>, <<"convention">>, <<"setting">>,
                         <<"config">> >>,
      decisions   |-> << <<"decid">>, <<"decision">>, <<"chose">>, <<"choice">>,
                         <<"approach">>, <<"architect">> >>,
      facts       |-> << <<"fact">>, <<"reference">>, <<"version">>, <<"url">>, <<"path">>,
                         <<"endpoint">>, <<"api">> >>,
      entities    |-> << <<"people">>, <<"person">>, <<"entity">>, <<"contact">>, <<"team">>,
                         <<"org">> >>,
      lessons     |-> << <<"lesson">>, <<"learn">>, <<"gotcha">>, <<"caveat">>, <<"debug">>,
                         <<"workaround">>, <<"fix">> >>,
      todos       |-> << <<"todo">>, <<"task">>, <<"reminder">>, <<"follow", "up">>,
                         <<"pending">>, <<"backlog">> >>,
      opinions    |-> << <<"opinion">>, <<"feel">>, <<"think">>, <<"belief">>, <<"stance">>,
                         <<"dislike">>, <<"avoid">> >> ]

\* One alternative occurs in text (the pattern is case-insensitive, the text
\* is lower-cased before; "." matches any character but a line terminator).
AltOccurs(text, alt) ==
    IF Len(alt) = 1 THEN Includes(text, alt[1])
    ELSE \E i \in 1..Len(text) :
            /\ StartsAt(text, i, alt[1])
            /\ \/ StartsAt(text, i + Len(alt[1]), alt[2])
               \/ /\ i + Len(alt[1]) <= Len(text)
                  /\ Ch(text, i + Len(alt[1])) \notin {"\n", "\r"}
                  /\ StartsAt(text, i + Len(alt[1]) + 1, alt[2])

\* A test that knows the first alternative of each pattern only.
PatternTest_firstAlternative(cat, text) ==
    AltOccurs(text, CATEGORY_PATTERNS[cat][1])

\* pattern.test(text)
PatternTest(cat, text) ==
    \E j \in 1..Len(CATEGORY_PATTERNS[cat]) : AltOccurs(text, CATEGORY_PATTERNS[cat][j])

\* The loop over Object.entries(CATEGORY_PATTERNS), from entry i on.
RECURSIVE ClassifyFrom(_, _)
ClassifyFrom(text, i) ==
    IF i > Len(Categories) THEN "facts"
    ELSE IF PatternTest(Categories[i], text) THEN Categories[i]
    ELSE ClassifyFrom(text, i + 1)

\* A classifier that does not lower-case the header.
classifySection_caseSensitive(header) == ClassifyFrom(header, 1)

classifySection(header) == ClassifyFrom(ToLowerCase(header), 1)

\* ------------------------------------------------------------------------
\* Memory consolidation: the pure parts
\* ------------------------------------------------------------------------

EmptyCategorized == [c \in CategorySet |-> << >>]

\* for (const sec of sections) categorized[classifySection(sec.header)].push(sec)
\* A loop that files every Section under facts.
RECURSIVE PushSections_allFacts(_, _)
PushSections_allFacts(categorized, sections) ==
    IF sections = << >> THEN categorized
    ELSE PushSections_allFacts([categorized EXCEPT !["facts"] = Append(@, sections[1])],
                               Tail(sections))

RECURSIVE PushSections(_, _)
PushSections(categorized, sections) ==
    IF sections = << >> THEN categorized
    ELSE LET cat == classifySection(sections[1].header)
         IN  PushSections([categorized EXCEPT ![cat] = Append(@, sections[1])],
                          Tail(sections))

\* The loop over dailyFiles: contents is the sequence of the files' texts, in
\* the order of dailyFiles.
RECURSIVE ClassifyFiles(_, _)
ClassifyFiles(categorized, contents) ==
    IF contents = << >> THEN categorized
    ELSE ClassifyFiles(PushSections(categorized, parseSections(contents[1])),
                       Tail(contents))

\* A merge that puts the new Sections before the existing ones.
MergeExisting_newFirst(categorized, comp) ==
    [c \in CategorySet |->
        IF c \in DOMAIN comp THEN categorized[c] \o parseSections(comp[c])
        ELSE categorized[c]]

\* A merge that forgets the existing Sections.
MergeExisting_newOnly(categorized, comp) ==
    [c \in CategorySet |-> categorized[c]]

\* categorized[cat] = [...existing, ...categorized[cat]] for every category
\* whose detail file exists; comp maps the existing detail files to their text.
MergeExisting(categorized, comp) ==
    [c \in CategorySet |->
        IF c \in DOMAIN comp THEN parseSections(comp[c]) \o categorized[c]
        ELSE categorized[c]]

\* cat.charAt(0).toUpperCase() + cat.slice(1)
Capitalize(s) == ToUpperCase(Upto(s, 1)) \o From(s, 2)

RECURSIVE DetailFields(_)
DetailFields(fields) ==
    IF fields = << >> THEN ""
    ELSE "- **" \o fields[1].k \o ":** " \o fields[1].v \o "\n" \o DetailFields(Tail(fields))

RECURSIVE DetailBullets(_)
DetailBullets(bullets) ==
    IF bullets = << >> THEN ""
    ELSE "- " \o bullets[1] \o "\n" \o DetailBullets(Tail(bullets))

RECURSIVE DetailSections(_)
DetailSections(sections) ==
    IF sections = << >> THEN ""
    ELSE LET sec == sections[1]
         IN  "## " \o sec.header \o "\n\n"
               \o DetailFields(sec.fields)
               \o DetailBullets(sec.bullets)
               \o (IF sec.prose # "" THEN "\n" \o sec.prose \o "\n" ELSE "")
               \o "\n"
               \o DetailSections(Tail(sections))

\* The text of the detail file of category cat.
DetailContent(cat, sections) == "# " \o Capitalize(cat) \o "\n\n" \o DetailSections(sections)

catShort ==
    [ preferences |-> "PREF", decisions |-> "DECISION", facts |-> "FACT",
      entities |-> "ENTITY", lessons |-> "LESSON", todos |-> "TODO",
      opinions |-> "OPINION" ]

\* .slice(0, 8)
IndexKeys == 8

RECURSIVE SlugHeaders(_, _)
SlugHeaders(sections, n) ==
    IF sections = << >> \/ n = 0 THEN << >>
    ELSE << slugify(sections[1].header) >> \o SlugHeaders(Tail(sections), n - 1)

RECURSIVE CatSummaries(_, _)
CatSummaries(categorized, i) ==
    IF i > Len(Categories) THEN << >>
    ELSE LET cat == Categories[i]
         IN  (IF categorized[cat] = << >> THEN << >>
              ELSE << catShort[cat] \o ":{" \o cat \o ".md,"
                        \o Join(SlugHeaders(categorized[cat], IndexKeys), ",") \o "}" >>)
             \o CatSummaries(categorized, i + 1)

MemoryIndexLine(categorized) ==
    LET sums == CatSummaries(categorized, 1)
    IN  "<!-- MEMORY-INDEX-START -->[Memory Index]|root:./memory/compressed|Read file for full context."
          \o (IF sums # << >> THEN "|" \o Join(sums, "|") ELSE "")
          \o "<!-- MEMORY-INDEX-END -->"

\* ------------------------------------------------------------------------
\* Skill index: the pure parts
\* ------------------------------------------------------------------------

IsUpper(c) == c \in UpperSet
IsWordCh(c) == c \in UpperSet \/ c \in LowerSet \/ IsDigit(c) \/ c = "_"
IsEnvCh(c) == IsUpper(c) \/ IsDigit(c) \/ c = "_"

\* The first position >= i of s that holds no character of [\w-].
RECURSIVE SkipKeyChars(_, _)
SkipKeyChars(s, i) ==
    IF i > Len(s) THEN i
    ELSE IF IsWordCh(Ch(s, i)) \/ Ch(s, i) = "-" THEN SkipKeyChars(s, i + 1)
    ELSE i

\* line.match(/^(\w[\w-]*):\s*(.+)/): key and trimmed value.
FrontmatterLine(line) ==
    IF ~(Len(line) >= 1 /\ IsWordCh(Ch(line, 1))) THEN NoMatch
    ELSE LET e == SkipKeyChars(line, 2)
         IN  IF ~StartsAt(line, e, ":") \/ e + 1 > Len(line) THEN NoMatch
             ELSE [ok |-> TRUE, key |-> Upto(line, e - 1), text |-> Trim(From(line, e + 1))]

\* The value parseFrontmatter(content)[key] ("" when undefined: the callers
\* only test it for truth): the last line of the block that sets key.
RECURSIVE LastValue(_, _, _)
LastValue(lines, key, acc) ==
    IF lines = << >> THEN acc
    ELSE LET m == FrontmatterLine(lines[1])
         IN  LastValue(Tail(lines), key, IF m.ok /\ m.key = key THEN m.text ELSE acc)

parseFrontmatter(content, key) ==
    LET p == IndexFrom(content, "\n---", 5)
    IN  IF ~StartsAt(content, 1, "---\n") \/ p = 0 THEN ""
        ELSE LastValue(SplitLines(SubSeq(content, 5, p - 1)), key, "")

\* The first position >= i of s that holds no character of [A-Z0-9_].
RECURSIVE SkipEnvChars(_, _)
SkipEnvChars(s, i) ==
    IF i > Len(s) THEN i
    ELSE IF IsEnvCh(Ch(s, i)) THEN SkipEnvChars(s, i + 1)
    ELSE i

\* content.match(/[A-Z][A-Z0-9_]{2,}/g), from position i on.
RECURSIVE EnvMatches(_, _)
EnvMatches(s, i) ==
    LET starts == { j \in i..(Len(s) - 2) :
                      IsUpper(Ch(s, j)) /\ IsEnvCh(Ch(s, j + 1)) /\ IsEnvCh(Ch(s, j + 2)) }
        first  == CHOOSE j \in starts : \A k \in starts : j <= k
        e      == SkipEnvChars(s, first)
    IN  IF starts = {} THEN << >>
        ELSE << SubSeq(s, first, e - 1) >> \o EnvMatches(s, e)

\* [...new Set(xs)]
RECURSIVE Unique(_, _)
Unique(xs, seen) ==
    IF xs = << >> THEN << >>
    ELSE IF xs[1] \in seen THEN Unique(Tail(xs), seen)
    ELSE << xs[1] >> \o Unique(Tail(xs), seen \cup {xs[1]})

IsEnvVar(e) == Includes(e, "_") /\ Len(e) > 3

\* .slice(0, 5)
EnvKeep == 5

EnvVars(content) ==
    LET all == SelectSeq(Unique(EnvMatches(content, 1), {}), IsEnvVar)
    IN  SubSeq(all, 1, IF Len(all) < EnvKeep THEN Len(all) ELSE EnvKeep)

\* The entry of one skill directory that holds a SKILL.md.
SkillEntry(dirName, content) ==
    LET fmName == parseFrontmatter(content, "name")
        name   == IF fmName # "" THEN fmName ELSE dirName
        cmd    == parseFrontmatter(content, "command")
        env    == EnvVars(content)
    IN  name \o ":{SKILL.md}"
          \o (IF cmd # "" THEN ",cmd:" \o cmd ELSE "")
          \o (IF env # << >> THEN ",env:" \o Join(env, ",") ELSE "")

\* The entries of the skill directories, in listing order; a directory
\* without SKILL.md gives none.  dirs is a sequence of [name, files].
RECURSIVE SkillEntries(_)
SkillEntries(dirs) ==
    IF dirs = << >> THEN << >>
    ELSE (IF "SKILL.md" \in DOMAIN dirs[1].files
          THEN << SkillEntry(dirs[1].name, dirs[1].files["SKILL.md"]) >>
          ELSE << >>)
         \o SkillEntries(Tail(dirs))

SkillIndexLine(entries) ==
    "<!-- SKILLS-INDEX-START -->[Skills]|root:~/.openclaw/skills|Read SKILL.md before invoking.|"
      \o Join(entries, "|")
      \o "<!-- SKILLS-INDEX-END -->"

\* ------------------------------------------------------------------------
\* The file system and the run
\* ------------------------------------------------------------------------

VARIABLES
    fs,           \* the workspace: fs.root, fs.memory, fs.compressed and fs.archive map
                  \* the names of the files of <workspace>/, memory/, memory/compressed/
                  \* and memory/archive/ to their text; fs.mtime maps the files of
                  \* memory/ to their modification time; fs.dirs is the set of the
                  \* directories that exist
    skills,       \* ~/.openclaw/skills: [exists, dirs], dirs the sequence of its
                  \* directories [name, files] in listing order
    now,          \* Date.now(), in milliseconds
    flags,        \* the flags of the running process
    pc,           \* the position of the running process, "idle" when none runs
    dailyFiles,   \* runMemoryConsolidation: dailyFiles
    categorized,  \* runMemoryConsolidation: categorized
    idx,          \* the index of the loop the process is in
    content,      \* runBootstrapCompression: content
    log,          \* history: the file operations the running process has performed
    hist,         \* history: one record per finished process and per change made
                  \* to the workspace from outside
    input,        \* the argument of a function of the script called on its own
    output        \* what that call returned, NotCalled before it

vars == << fs, skills, now, flags, pc, dailyFiles, categorized, idx, content, log, hist,
          input, output >>

Put(f, k, v) == [x \in DOMAIN f \cup {k} |-> IF x = k THEN v ELSE f[x]]
Remove(f, k) == [x \in DOMAIN f \ {k} |-> f[x]]

Path(d, n) == [d |-> d, n |-> n]

Exists(f, p) == p.n \in DOMAIN f[p.d]

\* fs.mkdirSync(path.dirname(p), { recursive: true })
DirsFor(d) ==
    CASE d = "compressed" -> {"memory", "memory/compressed"}
      [] d = "archive"    -> {"memory", "memory/archive"}
      [] d = "memory"     -> {"memory"}
      [] OTHER            -> {}

Op(kind, p, text, f) ==
    [op |-> kind, d |-> p.d, n |-> p.n, text |-> text, existed |-> Exists(f, p)]

\* writeFile without its dry-run guard.
writeFile_always(f, dry, p, text) ==
    [f EXCEPT ![p.d] = Put(@, p.n, text), !.dirs = @ \cup DirsFor(p.d)]

\* writeFile(p, content): the file system after it.
writeFile(f, dry, p, text) ==
    IF dry THEN f
    ELSE [f EXCEPT ![p.d] = Put(@, p.n, text), !.dirs = @ \cup DirsFor(p.d)]

\* copyFile(src, dest): the file system after it.
copyFile(f, dry, src, dest) ==
    IF dry THEN f
    ELSE [f EXCEPT ![dest.d] = Put(@, dest.n, f[src.d][src.n]),
                   !.dirs = @ \cup DirsFor(dest.d)]

\* fs.unlinkSync of a file of memory/
unlinkDaily(f, n) ==
    [f EXCEPT !.memory = Remove(@, n), !.mtime = Remove(@, n)]

Logged(dry, entry) == IF dry THEN log ELSE Append(log, entry)

\* console.warn about the size of what is written to file p.
Warn(p) == [op |-> "warn", d |-> p.d, n |-> p.n, text |-> "", existed |-> TRUE]

\* The ceilings of the memory index and of a bootstrap block.
IndexCeiling == 4096
BlockCeiling == 2048

Pad2(n) == Ch(Digits, (n \div 10) + 1) \o Ch(Digits, (n % 10) + 1)

\* timestamp(): YYYYMMDD-HHMMSS of the local time; the clock of the model
\* starts at 2026-11-02 00:00:00.
timestamp ==
    LET sec == now \div 1000
    IN  "202611" \o Pad2(2 + (sec \div 86400)) \o "-" \o Pad2((sec % 86400) \div 3600)
          \o Pad2((sec % 3600) \div 60) \o Pad2(sec % 60)

TWELVE_HOURS == 12 * 60 * 60 * 1000

BOOTSTRAP_FILES == << "SOUL.md", "IDENTITY.md", "USER.md", "AGENTS.md", "HEARTBEAT.md" >>

\* str.replace(".md", ""): the first occurrence only.
DropMd(name) ==
    LET i == IndexFrom(name, ".md", 1)
    IN  IF i = 0 THEN name ELSE Upto(name, i - 1) \o From(name, i + 3)

\* str.endsWith(".md")
EndsWithMd(name) == Len(name) >= 3 /\ From(name, Len(name) - 2) = ".md"

\* The sequences that list the elements of S once each.
Orderings(S) ==
    { q \in [1..Cardinality(S) -> S] : \A i, j \in 1..Cardinality(S) : i # j => q[i] # q[j] }

NoFlags == [dryRun |-> FALSE, skipMemory |-> FALSE, skipBootstrap |-> FALSE,
            skipSkills |-> FALSE]

Locals0 ==
    /\ dailyFiles = << >>
    /\ categorized = EmptyCategorized
    /\ idx = 0
    /\ content = ""

LocalsReset ==
    /\ dailyFiles' = << >>
    /\ categorized' = EmptyCategorized
    /\ idx' = 0
    /\ content' = ""

Env == << skills, now >>
Pure == << input, output >>

NotCalled == [called |-> FALSE, fn |-> "", value |-> ""]

Called(fn, value) == [called |-> TRUE, fn |-> fn, value |-> value]
Mem == << dailyFiles, categorized >>

\* The number of processes started so far.
Started == Cardinality({ i \in 1..Len(hist) : hist[i].kind = "run" })
             + (IF pc = "idle" THEN 0 ELSE 1)

\* A record of hist: kind is "init" (the first one), "run" (a process has
\* ended: complete tells whether it ran to its end, log what it did, error
\* the step at which a file operation threw, "" when none did), "env" (time
\* has passed) or "note" (a daily file was written from outside).
HistEntry(kind, complete) ==
    [kind |-> kind, complete |-> complete, flags |-> flags, now |-> now, after |-> fs,
     log |-> log, error |-> ""]

\* ------------------------------------------------------------------------
\* main
\* ------------------------------------------------------------------------

\* At most MaxRuns processes are started.
MaxRuns == 2

\* A process starts with flags of the set F.
StartRun(F) ==
    /\ pc = "idle"
    /\ Started < MaxRuns
    /\ flags' \in F
    /\ pc' = "mainA"
    /\ log' = << >>
    /\ UNCHANGED << fs, Env, Mem, idx, content, hist, Pure >>

\* if (!flags.skipMemory) runMemoryConsolidation();
MainMemory ==
    /\ pc = "mainA"
    /\ pc' = IF flags.skipMemory THEN "mainB" ELSE "A1"
    /\ UNCHANGED << fs, Env, flags, Mem, idx, content, log, hist, Pure >>

\* if (!flags.skipBootstrap) runBootstrapCompression();
MainBootstrap ==
    /\ pc = "mainB"
    /\ pc' = IF flags.skipBootstrap THEN "mainC" ELSE "B1"
    /\ idx' = 1
    /\ UNCHANGED << fs, Env, flags, Mem, content, log, hist, Pure >>

\* if (!flags.skipSkills) runSkillIndex();
MainSkills ==
    /\ pc = "mainC"
    /\ pc' = IF flags.skipSkills THEN "mainEnd" ELSE "C1"
    /\ UNCHANGED << fs, Env, flags, Mem, idx, content, log, hist, Pure >>

\* printReport(), and the process ends.
MainEnd ==
    /\ pc = "mainEnd"
    /\ pc' = "idle"
    /\ hist' = Append(hist, HistEntry("run", TRUE))
    /\ LocalsReset
    /\ log' = << >>
    /\ UNCHANGED << fs, Env, flags, Pure >>

\* At most MaxKills processes are terminated from outside, and at most
\* MaxFailures end with a file operation that throws.
MaxKills == 1
MaxFailures == 1

Kills == Cardinality({ i \in 1..Len(hist) : hist[i].kind = "run" /\ ~hist[i].complete })

\* The process is terminated from outside, between two of its steps.
Kill ==
    /\ pc \notin {"idle", "mainEnd"}
    /\ Kills < MaxKills
    /\ pc' = "idle"
    /\ hist' = Append(hist, HistEntry("run", FALSE))
    /\ LocalsReset
    /\ log' = << >>
    /\ UNCHANGED << fs, Env, flags, Pure >>

\* ------------------------------------------------------------------------
\* Section A: runMemoryConsolidation
\* ------------------------------------------------------------------------

MemoryFile == Path("root", "MEMORY.md")

\* The workflow without the check of memory/.
MemCheckDir_noCheck ==
    /\ pc = "A1"
    /\ pc' = "A2"
    /\ UNCHANGED << fs, Env, flags, Mem, idx, content, log, hist, Pure >>

\* if (!fs.existsSync(memoryDir)) return;
MemCheckDir ==
    /\ pc = "A1"
    /\ pc' = IF "memory" \in fs.dirs THEN "A2" ELSE "mainB"
    /\ UNCHANGED << fs, Env, flags, Mem, idx, content, log, hist, Pure >>

\* Backup MEMORY.md
MemBackup ==
    /\ pc = "A2"
    /\ LET dest == Path("archive", "MEMORY-" \o timestamp \o ".md")
       IN  IF Exists(fs, MemoryFile)
           THEN /\ fs' = copyFile(fs, flags.dryRun, MemoryFile, dest)
                /\ log' = Logged(flags.dryRun, Op("copy", dest, fs.root["MEMORY.md"], fs))
           ELSE UNCHANGED << fs, log >>
    /\ pc' = "A3"
    /\ UNCHANGED << Env, flags, Mem, idx, content, hist, Pure >>

\* fs.readdirSync(memoryDir, { withFileTypes: true }): the files of memory/
\* and its directories archive and compressed, not what these hold.
MemoryEntries(f) ==
    { [name |-> n, isFile |-> TRUE] : n \in DOMAIN f.memory }
      \cup { [name |-> d, isFile |-> FALSE] :
               d \in { d \in {"archive", "compressed"} : ("memory/" \o d) \in f.dirs } }

\* The loop that skips a file of exactly twelve hours as well.
Eligible_strictlyOlder(f, t) ==
    { e.name : e \in { e \in MemoryEntries(f) :
        /\ e.isFile
        /\ EndsWithMd(e.name)
        /\ e.name # "MEMORY.md"
        /\ ~(t - f.mtime[e.name] <= TWELVE_HOURS) } }

\* The files of memory/ the loop over its entries keeps: the directories
\* archive and compressed are skipped, and so is every entry that is no file.
Eligible(f, t) ==
    { e.name : e \in { e \in MemoryEntries(f) :
        /\ ~(~e.isFile /\ e.name \in {"archive", "compressed"})
        /\ e.isFile
        /\ EndsWithMd(e.name)
        /\ e.name # "MEMORY.md"
        /\ ~(t - f.mtime[e.name] < TWELVE_HOURS) } }

\* The discovery without the return when it finds no file.
MemDiscover_noReturn ==
    /\ pc = "A3"
    /\ \E order \in Orderings(Eligible(fs, now)) :
          /\ dailyFiles' = order
          /\ pc' = "A4"
    /\ UNCHANGED << fs, Env, flags, categorized, idx, content, log, hist, Pure >>

\* Find daily files to process.  readdirSync gives the entries in an order
\* the file system chooses.
MemDiscover ==
    /\ pc = "A3"
    /\ \E order \in Orderings(Eligible(fs, now)) :
          /\ dailyFiles' = order
          /\ pc' = IF order = << >> THEN "mainB" ELSE "A4"
    /\ UNCHANGED << fs, Env, flags, categorized, idx, content, log, hist, Pure >>

\* The detail files that exist, by category.
ExistingDetails(f) ==
    [c \in { c \in CategorySet : (c \o ".md") \in DOMAIN f.compressed } |->
        f.compressed[c \o ".md"]]

\* Parse and classify all sections; load existing compressed files and merge.
MemParseMerge ==
    /\ pc = "A4"
    /\ categorized' =
          MergeExisting(
              ClassifyFiles(EmptyCategorized,
                            [i \in 1..Len(dailyFiles) |-> fs.memory[dailyFiles[i]]]),
              ExistingDetails(fs))
    /\ idx' = 1
    /\ pc' = "A5"
    /\ UNCHANGED << fs, Env, flags, dailyFiles, content, log, hist, Pure >>

\* Write detail files to compressed/: one turn of the loop.
MemWriteDetail ==
    /\ pc = "A5"
    /\ LET cat  == Categories[idx]
           dest == Path("compressed", cat \o ".md")
           text == DetailContent(cat, categorized[cat])
       IN  IF categorized[cat] # << >>
           THEN /\ fs' = writeFile(fs, flags.dryRun, dest, text)
                /\ log' = Logged(flags.dryRun, Op("write", dest, text, fs))
           ELSE UNCHANGED << fs, log >>
    /\ idx' = idx + 1
    /\ pc' = IF idx = Len(Categories) THEN "A6" ELSE "A5"
    /\ UNCHANGED << Env, flags, Mem, content, hist, Pure >>

\* A write that puts the index line after the text MEMORY.md holds.
MemWriteIndex_append ==
    /\ pc = "A6"
    /\ LET indexLine == MemoryIndexLine(categorized)
           text      == (IF Exists(fs, MemoryFile) THEN fs.root["MEMORY.md"] \o "\n" ELSE "")
                            \o indexLine \o "\n"
       IN  /\ fs' = writeFile(fs, flags.dryRun, MemoryFile, text)
           /\ log' = Logged(flags.dryRun, Op("write", MemoryFile, text, fs))
    /\ idx' = 1
    /\ pc' = "A7"
    /\ UNCHANGED << Env, flags, Mem, content, hist, Pure >>

\* Write MEMORY.md as single-line index; validate: index <4KB.
MemWriteIndex ==
    /\ pc = "A6"
    /\ LET indexLine == MemoryIndexLine(categorized)
           text      == indexLine \o "\n"
           written   == Logged(flags.dryRun, Op("write", MemoryFile, text, fs))
       IN  /\ fs' = writeFile(fs, flags.dryRun, MemoryFile, text)
           /\ log' = IF Len(indexLine) > IndexCeiling
                     THEN Append(written, Warn(MemoryFile))
                     ELSE written
    /\ idx' = 1
    /\ pc' = "A7"
    /\ UNCHANGED << Env, flags, Mem, content, hist, Pure >>

\* The archive step without its copy.
MemArchiveCopy_skipped ==
    /\ pc = "A7"
    /\ pc' = "A8"
    /\ UNCHANGED << fs, Env, flags, Mem, idx, content, log, hist, Pure >>

\* Archive processed dailies: copyFile(file, dest).
MemArchiveCopy ==
    /\ pc = "A7"
    /\ LET n    == dailyFiles[idx]
           dest == Path("archive", n)
       IN  /\ fs' = copyFile(fs, flags.dryRun, Path("memory", n), dest)
           /\ log' = Logged(flags.dryRun, Op("copy", dest, fs.memory[n], fs))
    /\ pc' = "A8"
    /\ UNCHANGED << Env, flags, Mem, idx, content, hist, Pure >>

\* The archive loop that is followed by a second write of the index.
MemArchiveUnlink_thenIndex ==
    /\ pc = "A8"
    /\ LET n == dailyFiles[idx]
       IN  IF flags.dryRun THEN UNCHANGED << fs, log >>
           ELSE /\ fs' = unlinkDaily(fs, n)
                /\ log' = Append(log, Op("unlink", Path("memory", n), fs.memory[n], fs))
    /\ idx' = idx + 1
    /\ pc' = IF idx = Len(dailyFiles) THEN "A6" ELSE "A7"
    /\ UNCHANGED << Env, flags, Mem, content, hist, Pure >>

\* Archive processed dailies: if (!flags.dryRun) fs.unlinkSync(file).
MemArchiveUnlink ==
    /\ pc = "A8"
    /\ LET n == dailyFiles[idx]
       IN  IF flags.dryRun THEN UNCHANGED << fs, log >>
           ELSE /\ fs' = unlinkDaily(fs, n)
                /\ log' = Append(log, Op("unlink", Path("memory", n), fs.memory[n], fs))
    /\ idx' = idx + 1
    /\ pc' = IF idx = Len(dailyFiles) THEN "mainB" ELSE "A7"
    /\ UNCHANGED << Env, flags, Mem, content, hist, Pure >>

\* ------------------------------------------------------------------------
\* Section B: runBootstrapCompression
\* ------------------------------------------------------------------------

BootNext == IF idx = Len(BOOTSTRAP_FILES) THEN "mainC" ELSE "B1"

\* One turn of the loop, up to the backup: a file that does not exist is
\* skipped.
BootBackup ==
    /\ pc = "B1"
    /\ LET filename == BOOTSTRAP_FILES[idx]
           file     == Path("root", filename)
           dest     == Path("archive", DropMd(filename) \o "-" \o timestamp \o ".md")
       IN  IF ~Exists(fs, file)
           THEN /\ idx' = idx + 1
                /\ pc' = BootNext
                /\ UNCHANGED << fs, log, content >>
           ELSE /\ content' = fs.root[filename]
                /\ fs' = copyFile(fs, flags.dryRun, file, dest)
                /\ log' = Logged(flags.dryRun, Op("copy", dest, fs.root[filename], fs))
                /\ pc' = "B2"
                /\ UNCHANGED idx
    /\ UNCHANGED << Env, flags, Mem, hist, Pure >>

\* A compression that puts the block in the place of the text.
BootstrapContent_blockOnly(filename, text) ==
    LET tag == ToUpperCase(DropMd(filename))
    IN  serializeSections(tag, DropMd(filename),
                          parseSections(stripExistingMarker(text, tag))) \o "\n"

\* The text runBootstrapCompression writes back to a file named filename that
\* holds text.
BootstrapContent(filename, text) ==
    LET tag        == ToUpperCase(DropMd(filename))
        clean      == stripExistingMarker(text, tag)
        sections   == parseSections(clean)
        compressed == serializeSections(tag, DropMd(filename), sections)
    IN  clean \o "\n\n" \o compressed \o "\n"

\* The block runBootstrapCompression appends to a file named filename that
\* holds text.
BootstrapBlock(filename, text) ==
    LET tag == ToUpperCase(DropMd(filename))
    IN  serializeSections(tag, DropMd(filename),
                          parseSections(stripExistingMarker(text, tag)))

\* One turn of the loop that does not write a block above the ceiling.
BootWrite_skipOversized ==
    /\ pc = "B2"
    /\ LET filename == BOOTSTRAP_FILES[idx]
           file     == Path("root", filename)
           text     == BootstrapContent(filename, content)
       IN  IF Len(BootstrapBlock(filename, content)) > BlockCeiling
           THEN /\ log' = Append(log, Warn(file))
                /\ UNCHANGED fs
           ELSE /\ fs' = writeFile(fs, flags.dryRun, file, text)
                /\ log' = Logged(flags.dryRun, Op("write", file, text, fs))
    /\ content' = ""
    /\ idx' = idx + 1
    /\ pc' = BootNext
    /\ UNCHANGED << Env, flags, Mem, hist, Pure >>

\* One turn of the loop, from the strip to the write; validate: <2KB.
BootWrite ==
    /\ pc = "B2"
    /\ LET filename == BOOTSTRAP_FILES[idx]
           file     == Path("root", filename)
           text     == BootstrapContent(filename, content)
           warned   == IF Len(BootstrapBlock(filename, content)) > BlockCeiling
                       THEN Append(log, Warn(file))
                       ELSE log
       IN  /\ fs' = writeFile(fs, flags.dryRun, file, text)
           /\ log' = IF flags.dryRun THEN warned
                     ELSE Append(warned, Op("write", file, text, fs))
    /\ content' = ""
    /\ idx' = idx + 1
    /\ pc' = BootNext
    /\ UNCHANGED << Env, flags, Mem, hist, Pure >>

\* ------------------------------------------------------------------------
\* Section C: runSkillIndex
\* ------------------------------------------------------------------------

ToolsFile == Path("root", "TOOLS.md")

\* The text runSkillIndex writes to TOOLS.md.
ToolsContent(f, indexLine) ==
    IF ~Exists(f, ToolsFile) THEN indexLine \o "\n"
    ELSE stripExistingMarker(f.root["TOOLS.md"], "SKILLS-INDEX") \o "\n\n" \o indexLine \o "\n"

runSkillIndex ==
    /\ pc = "C1"
    /\ LET entries == IF skills.exists THEN SkillEntries(skills.dirs) ELSE << >>
           text    == ToolsContent(fs, SkillIndexLine(entries))
       IN  IF entries = << >> THEN UNCHANGED << fs, log >>
           ELSE /\ fs' = writeFile(fs, flags.dryRun, ToolsFile, text)
                /\ log' = Logged(flags.dryRun, Op("write", ToolsFile, text, fs))
    /\ pc' = "mainEnd"
    /\ UNCHANGED << Env, flags, Mem, idx, content, hist, Pure >>

\* ------------------------------------------------------------------------
\* A file operation that throws
\* ------------------------------------------------------------------------

\* The directory the step the process is at writes to, "" when that step
\* calls none of mkdirSync, writeFileSync, copyFileSync and unlinkSync.
WritesTo ==
    CASE pc = "A2" -> IF Exists(fs, MemoryFile) THEN "archive" ELSE ""
      [] pc = "A5" -> IF categorized[Categories[idx]] # << >> THEN "compressed" ELSE ""
      [] pc = "A6" -> "root"
      [] pc = "A7" -> "archive"
      [] pc = "A8" -> "memory"
      [] pc = "B1" -> IF Exists(fs, Path("root", BOOTSTRAP_FILES[idx])) THEN "archive" ELSE ""
      [] pc = "B2" -> "root"
      [] pc = "C1" -> IF skills.exists /\ SkillEntries(skills.dirs) # << >> THEN "root" ELSE ""
      [] OTHER     -> ""

Failures == Cardinality({ i \in 1..Len(hist) : hist[i].error # "" })

\* The file operation of the step throws.  No function of the script catches
\* an exception, so it leaves the workflow and main, and the process ends; the
\* directory of the file has been made before, or the mkdirSync itself threw.
WriteFails ==
    /\ WritesTo # ""
    /\ ~flags.dryRun
    /\ Failures < MaxFailures
    /\ \E made \in { {}, IF pc = "A8" THEN {} ELSE DirsFor(WritesTo) } :
          fs' = [fs EXCEPT !.dirs = @ \cup made]
    /\ pc' = "idle"
    /\ hist' = Append(hist, [HistEntry("run", FALSE) EXCEPT !.error = pc, !.after = fs'])
    /\ LocalsReset
    /\ log' = << >>
    /\ UNCHANGED << Env, flags, Pure >>

\* ------------------------------------------------------------------------
\* The world around the process
\* ------------------------------------------------------------------------

Hours(n) == n * 60 * 60 * 1000

\* The clock at the start.
Clock0 == Hours(13)

\* Eleven hours pass while no process runs and a file of memory/ is younger
\* than twelve hours.
Tick ==
    /\ pc = "idle"
    /\ \E n \in DOMAIN fs.mtime : now - fs.mtime[n] < TWELVE_HOURS
    /\ now' = now + Hours(11)
    /\ hist' = Append(hist, [HistEntry("env", TRUE) EXCEPT !.flags = NoFlags,
                                                           !.now = now'])
    /\ UNCHANGED << fs, skills, flags, pc, Mem, idx, content, log, Pure >>

\* At most MaxNotes daily files are written from outside.
MaxNotes == 1

Notes == Cardinality({ i \in 1..Len(hist) : hist[i].kind = "note" })

\* While no process runs, the agent writes the daily file named n of memory/
\* with the given text: the file is created, or replaced when it exists.
WriteDaily(n, text) ==
    /\ pc = "idle"
    /\ "memory" \in fs.dirs
    /\ Notes < MaxNotes
    /\ fs' = [fs EXCEPT !.memory = Put(@, n, text), !.mtime = Put(@, n, now)]
    /\ hist' = Append(hist, [HistEntry("note", TRUE) EXCEPT !.flags = NoFlags,
                                                            !.after = fs'])
    /\ UNCHANGED << skills, now, flags, pc, Mem, idx, content, log, Pure >>

EmptyFs ==
    [root |-> << >>, memory |-> << >>, mtime |-> << >>, compressed |-> << >>,
     archive |-> << >>, dirs |-> {}]

NoSkills == [exists |-> FALSE, dirs |-> << >>]

\* What every specification starts from, given the workspace: no process runs.
StartWith(f, sk, x) ==
    /\ fs = f
    /\ skills = sk
    /\ now = Clock0
    /\ flags = NoFlags
    /\ pc = "idle"
    /\ Locals0
    /\ log = << >>
    /\ hist = << [kind |-> "init", complete |-> TRUE, flags |-> NoFlags, now |-> Clock0,
                  after |-> f, log |-> << >>, error |-> ""] >>
    /\ input = x
    /\ output = NotCalled

Start(f, sk) == StartWith(f, sk, "")

\* A function of the script is called on x, on its own.
StartCall(x) == StartWith(EmptyFs, NoSkills, x)

\* What a call on its own leaves alone.
Workflows == << fs, Env, flags, pc, Mem, idx, content, log, hist >>

\* The sequences of at most n elements of S.
SeqsUpTo(S, n) == UNION { [1..k -> S] : k \in 0..n }

\* The partial functions from the set Names to the set Values.
Partial(Names, Values) ==
    UNION { [D -> Values] : D \in SUBSET Names }

\* ------------------------------------------------------------------------
\* Memory consolidation on its own
\* ------------------------------------------------------------------------

DailyTexts ==
    << "## Decision: database\n- **Choice:** Postgres\n- RLS\n",
       "## Fact: deployment\nVercel prod\n",
       "## Decision: database\n- Supabase\n## Misc\n- x\n" >>

\* A file of memory/ was last written 13 hours or 2 hours before the start.
Old == Clock0 - Hours(13)
Young == Clock0 - Hours(2)

\* A file of memory/: its text and its modification time.
Daily(text, time) == [text |-> text, mtime |-> time]

\* The files of memory/ at the start: daily files and, in the last set, a
\* file that is no markdown file and a file named MEMORY.md.
DailySets ==
    { << >>,
      [n \in {"2026-10-31.md"} |-> Daily(DailyTexts[1], Old)],
      [n \in {"2026-11-01.md"} |-> Daily(DailyTexts[2], Young)],
      [n \in {"2026-10-31.md", "2026-11-01.md"} |->
          IF n = "2026-10-31.md" THEN Daily(DailyTexts[1], Old)
          ELSE Daily(DailyTexts[3], Old)],
      [n \in {"2026-10-31.md", "2026-11-01.md"} |->
          IF n = "2026-10-31.md" THEN Daily(DailyTexts[3], Old)
          ELSE Daily(DailyTexts[2], Young)],
      [n \in {"2026-10-31.md", "2026-11-01.md", "notes.txt", "MEMORY.md"} |->
          CASE n = "2026-10-31.md" -> Daily(DailyTexts[2], Clock0 - TWELVE_HOURS)
            [] n = "2026-11-01.md" -> Daily(DailyTexts[1], Young)
            [] n = "notes.txt"     -> Daily("## Fact: scratch\n- x\n", Old)
            [] n = "MEMORY.md"     -> Daily("## Fact: index\n- y\n", Old)] }

MemoryTexts == { "# Memory\n\n## Fact: old\n- kept by hand\n" }

MemoryFlags == { [NoFlags EXCEPT !.skipBootstrap = TRUE, !.skipSkills = TRUE] }

InitMemory ==
    \E files \in DailySets, mem \in Partial({"MEMORY.md"}, MemoryTexts) :
        Start([EmptyFs EXCEPT !.root = mem,
                              !.memory = [n \in DOMAIN files |-> files[n].text],
                              !.mtime = [n \in DOMAIN files |-> files[n].mtime],
                              !.dirs = {"memory"}],
              NoSkills)

NextMain == MainMemory \/ MainBootstrap \/ MainSkills \/ MainEnd

NextMem ==
    \/ MemCheckDir \/ MemBackup \/ MemDiscover \/ MemParseMerge
    \/ MemWriteDetail \/ MemWriteIndex \/ MemArchiveCopy \/ MemArchiveUnlink

NextMemory == StartRun(MemoryFlags) \/ NextMain \/ NextMem \/ Kill \/ Tick

SpecMemory == InitMemory /\ [][NextMemory]_vars

\* ------------------------------------------------------------------------
\* Memory consolidation while the agent goes on writing daily files
\* ------------------------------------------------------------------------

\* The daily file the agent writes again, and its new text.
NoteNames == {"2026-10-31.md"}
NoteTexts == {DailyTexts[2]}

NextArchive ==
    \/ StartRun(MemoryFlags) \/ NextMain \/ NextMem \/ Tick
    \/ \E n \in NoteNames, text \in NoteTexts : WriteDaily(n, text)

SpecArchive == InitMemory /\ [][NextArchive]_vars

\* ------------------------------------------------------------------------
\* Bootstrap compression on its own
\* ------------------------------------------------------------------------

SoulTexts ==
    { "# Soul\n\n## Tone\n- warm\n- professional\n\n## Style\n- concise\n",
      "## Tone\n- warm\n\n<!-- SOUL-START -->[SOUL]|TONE:{old}<!-- SOUL-END -->\n",
      "## A\n- x\n<!-- SOUL-START -->\n## B\n- y" }

UserTexts == { "## Name\n- **Name:** Ada\nLikes tea.\n" }

\* A SOUL.md of 1479 characters, a list of 30 fields; and one of 711
\* characters whose bullet is written in characters of three bytes each.
LongSoul ==
    "## Stack\n"
      \o Join([i \in 1..30 |-> "- **key" \o Pad2(i) \o ":** " \o Times("value", 7)], "\n")
      \o "\n"

WideSoul == "## Tone\n- " \o Times("日", 700) \o "\n"

BootstrapFlags == { [NoFlags EXCEPT !.skipMemory = TRUE, !.skipSkills = TRUE] }

\* The files of <workspace>/ that hold soul in SOUL.md and user in USER.md.
RootFiles(soul, user) ==
    [n \in { "SOUL.md" : x \in DOMAIN soul } \cup { "USER.md" : x \in DOMAIN user } |->
        IF n = "SOUL.md" THEN soul["SOUL.md"] ELSE user["USER.md"]]

InitBootstrap ==
    \E soul \in Partial({"SOUL.md"}, SoulTexts \cup {LongSoul, WideSoul}),
       user \in Partial({"USER.md"}, UserTexts) :
        Start([EmptyFs EXCEPT !.root = RootFiles(soul, user)], NoSkills)

NextBoot == BootBackup \/ BootWrite

NextBootstrap == StartRun(BootstrapFlags) \/ NextMain \/ NextBoot \/ Kill

SpecBootstrap == InitBootstrap /\ [][NextBootstrap]_vars

\* ------------------------------------------------------------------------
\* Skill indexing on its own
\* ------------------------------------------------------------------------

SkillDir(name, files) == [name |-> name, files |-> files]

SkillFile(text) == [n \in {"SKILL.md"} |-> text]

SkillSets ==
    { NoSkills,
      [exists |-> TRUE, dirs |-> << >>],
      [exists |-> TRUE,
       dirs |-> << SkillDir("weather",
                            SkillFile("---\nname: weather\ncommand: wx\n---\nNeeds WEATHER_API_KEY.\n")) >>],
      [exists |-> TRUE,
       dirs |-> << SkillDir("git-helper", SkillFile("# Git helper\n")),
                   SkillDir("notes", << >>) >>] }

ToolsTexts ==
    { "# Tools\n\n- grep\n",
      "# Tools\n\n<!-- SKILLS-INDEX-START -->[Skills]|old:{SKILL.md}<!-- SKILLS-INDEX-END -->\n" }

SkillsFlags == { [NoFlags EXCEPT !.skipMemory = TRUE, !.skipBootstrap = TRUE] }

InitSkills ==
    \E sk \in SkillSets, tools \in Partial({"TOOLS.md"}, ToolsTexts) :
        Start([EmptyFs EXCEPT !.root = tools], sk)

NextSkills == StartRun(SkillsFlags) \/ NextMain \/ runSkillIndex \/ Kill

SpecSkills == InitSkills /\ [][NextSkills]_vars

\* ------------------------------------------------------------------------
\* The whole program
\* ------------------------------------------------------------------------

Flags == { NoFlags, [NoFlags EXCEPT !.dryRun = TRUE] }

\* The workspace that holds the daily files, MEMORY.md as mem, the bootstrap
\* files of boot and TOOLS.md as tools; memory/ exists when hasMemory.
Workspace(files, mem, boot, tools, hasMemory) ==
    [EmptyFs EXCEPT
        !.root = [n \in DOMAIN mem \cup DOMAIN boot \cup DOMAIN tools |->
                    IF n \in DOMAIN mem THEN mem[n]
                    ELSE IF n \in DOMAIN boot THEN boot[n] ELSE tools[n]],
        !.memory = [n \in DOMAIN files |-> files[n].text],
        !.mtime = [n \in DOMAIN files |-> files[n].mtime],
        !.dirs = IF hasMemory THEN {"memory"} ELSE {}]

Init ==
    \E files \in DailySets,
       mem \in Partial({"MEMORY.md"}, MemoryTexts),
       boot \in Partial({"USER.md"}, UserTexts),
       tools \in Partial({"TOOLS.md"}, ToolsTexts),
       sk \in { x \in SkillSets : Len(x.dirs) # 1 },
       hasMemory \in BOOLEAN :
        /\ files # << >> => hasMemory
        /\ Start(Workspace(files, mem, boot, tools, hasMemory), sk)

Next == StartRun(Flags) \/ NextMain \/ NextMem \/ NextBoot \/ runSkillIndex \/ Tick

Spec == Init /\ [][Next]_vars

\* ------------------------------------------------------------------------
\* The whole program when a file operation may throw
\* ------------------------------------------------------------------------

\* Workspaces in which each workflow has a file to write.
InitFailure ==
    \E files \in DailySets \ {<< >>},
       mem \in Partial({"MEMORY.md"}, MemoryTexts),
       boot \in [{"USER.md"} -> UserTexts],
       sk \in { x \in SkillSets : Len(x.dirs) = 2 } :
        Start(Workspace(files, mem, boot, << >>, TRUE), sk)

NextFailure ==
    StartRun({NoFlags}) \/ NextMain \/ NextMem \/ NextBoot \/ runSkillIndex \/ WriteFails

SpecFailure == InitFailure /\ [][NextFailure]_vars

\* ------------------------------------------------------------------------
\* Memory consolidation and bootstrap compression: what they validate
\* ------------------------------------------------------------------------

\* A daily file of 8 Sections with headers of more than 500 characters: the
\* index line of their slugs is longer than IndexCeiling.
LargeDaily ==
    Join([i \in 1..8 |-> "## Fact " \o Ch(Digits, i + 1) \o " " \o Times("abcdefghij", 52)],
         "\n") \o "\n"

\* A SOUL.md with three bullets of 720 characters: its block is longer than
\* BlockCeiling.
LargeSoul ==
    "# Soul\n\n## Tone\n- " \o Times("warm", 180) \o "\n- " \o Times("calm", 180)
        \o "\n- " \o Times("kind", 180) \o "\n"

\* A daily file with a heading of spaces.
DriftDaily == "## Fact: stack\n- Node\n##   \n- x\n"

ValidateFlags == { [NoFlags EXCEPT !.skipSkills = TRUE],
                  [NoFlags EXCEPT !.skipSkills = TRUE, !.dryRun = TRUE] }

InitValidate ==
    \E daily \in {LargeDaily, DailyTexts[1], DriftDaily},
       soul \in {LargeSoul, "## Tone\n- warm\n"},
       mem \in Partial({"MEMORY.md"}, MemoryTexts) :
        Start(Workspace([n \in {"2026-10-31.md"} |-> Daily(daily, Old)], mem,
                        [n \in {"SOUL.md", "USER.md"} |->
                            IF n = "SOUL.md" THEN soul ELSE "## Name\n- Ada\n"],
                        << >>, TRUE),
              NoSkills)

NextValidate == StartRun(ValidateFlags) \/ NextMain \/ NextMem \/ NextBoot

SpecValidate == InitValidate /\ [][NextValidate]_vars

\* ------------------------------------------------------------------------
\* The functions of the script, each called on its own
\* ------------------------------------------------------------------------

\* stripExistingMarker: a text is made of at most MaxParts parts.
MaxParts == 3

StripParts ==
    { "a", " ", "\n", "\n\n\n", "## A\n- x\n", StartMarker("SOUL"), EndMarker("SOUL") }

StripTexts == { Join(q, "") : q \in SeqsUpTo(StripParts, MaxParts) }

\* Texts that hold two marker pairs, apart, nested and side by side.
StripPairTexts ==
    { "a\n" \o StartMarker("SOUL") \o "x" \o EndMarker("SOUL") \o "\nb"
        \o StartMarker("SOUL") \o "y" \o EndMarker("SOUL"),
      StartMarker("SOUL") \o StartMarker("SOUL") \o "x" \o EndMarker("SOUL")
        \o "y" \o EndMarker("SOUL") \o "z",
      "p\n\n" \o StartMarker("SOUL") \o EndMarker("SOUL") \o "\n\n"
        \o StartMarker("SOUL") \o "\n" \o EndMarker("SOUL") \o "\n\nq\n",
      "<!-- SOUL-STA" \o StartMarker("SOUL") \o EndMarker("SOUL") \o "RT -->x"
        \o EndMarker("SOUL") }

InitStrip == \E x \in StripTexts \cup StripPairTexts : StartCall(x)

\* stripExistingMarker(input, "SOUL")
Strip ==
    /\ ~output.called
    /\ output' = Called("strip", stripExistingMarker(input, "SOUL"))
    /\ UNCHANGED << Workflows, input >>

\* The block of input is appended to input as runBootstrapCompression appends
\* it, and the result is stripped.
AppendStrip ==
    /\ ~output.called
    /\ output' =
          Called("appendStrip",
                 stripExistingMarker(
                     input \o "\n\n"
                           \o serializeSections("SOUL", "SOUL", parseSections(input)) \o "\n",
                     "SOUL"))
    /\ UNCHANGED << Workflows, input >>

NextStrip == Strip \/ AppendStrip

SpecStrip == InitStrip /\ [][NextStrip]_vars

\* parseSections and the writer of the detail files: a daily file is made of
\* at most MaxLines lines.
MaxLines == 3

ParseLinePool ==
    { "## A", "## Decision: db", "- **k:** v", "- x", "text", "  - nested", "", "##   ",
      "* y", "- **k:** w", "- **__proto__:** z", "---" }

ParseTexts == { Join(q, "\n") : q \in SeqsUpTo(ParseLinePool, MaxLines) }

\* Texts for the serializer: two Sections of bullets, a Section of prose of
\* more than ProseCut characters, values that hold runs of whitespace, and
\* fields whose labels are numbers.
SerializeTexts ==
    { "## Tone\n- warm\n- professional\n\n## Style\n- concise\n",
      "## Notes\n" \o Times("word ", 30) \o "\n",
      "## Tone (new)\n- **Main  Voice:** warm  and\tkind\n- [calm]\nmore text\n",
      "## Ports\n- **web:** 80\n- **10:** ten\n- **2:** two\n- **web:** 8080\n" }

InitParse == \E x \in ParseTexts \cup SerializeTexts : StartCall(x)

\* The Sections of input are written to a detail file, and the file is parsed.
RoundTrip ==
    /\ ~output.called
    /\ LET sections == parseSections(input)
           text     == DetailContent("facts", sections)
       IN  output' = Called("roundTrip", [sections |-> sections, text |-> text,
                                          again |-> parseSections(text)])
    /\ UNCHANGED << Workflows, input >>

\* The Sections of input are serialized to a block, as runBootstrapCompression
\* serializes the Sections of SOUL.md.
Serialize ==
    /\ ~output.called
    /\ LET sections == parseSections(input)
       IN  output' = Called("serialize",
                            [sections |-> sections,
                             block |-> serializeSections("SOUL", "SOUL", sections)])
    /\ UNCHANGED << Workflows, input >>

NextParse == RoundTrip \/ Serialize

SpecParse == InitParse /\ [][NextParse]_vars

\* classifySection: a header is made of at most MaxWords words.
MaxWords == 2

HeaderWords ==
    { "Decision", "decided", "Style", "config", "Preference", "Fact", "notes", "Person",
      "Lesson", "TODO", "follow-up", "I think" }

Headers == { Join(q, " ") : q \in SeqsUpTo(HeaderWords, MaxWords) }

InitClassify == \E x \in Headers : StartCall(x)

Classify ==
    /\ ~output.called
    /\ output' = Called("classify", classifySection(input))
    /\ UNCHANGED << Workflows, input >>

NextClassify == Classify

SpecClassify == InitClassify /\ [][NextClassify]_vars

\* ------------------------------------------------------------------------
\* Properties of the merge
\* ------------------------------------------------------------------------

\* The Sections recovered from the detail file of category c of workspace f.
Recovered(f, c) ==
    IF (c \o ".md") \in DOMAIN f.compressed
    THEN parseSections(f.compressed[c \o ".md"])
    ELSE << >>

RECURSIVE Flatten(_)
Flatten(seqs) == IF seqs = << >> THEN << >> ELSE seqs[1] \o Flatten(Tail(seqs))

\* The Sections parsed from the daily files, in the order of files.
NewSections(f, files) ==
    Flatten([i \in 1..Len(files) |-> parseSections(f.memory[files[i]])])

RECURSIVE TotalFrom(_, _)
TotalFrom(count, i) ==
    IF i > Len(Categories) THEN 0 ELSE count[Categories[i]] + TotalFrom(count, i + 1)

\* The number of Sections over all categories.
Total(cz) == TotalFrom([c \in CategorySet |-> Len(cz[c])], 1)

RecoveredTotal(f) == TotalFrom([c \in CategorySet |-> Len(Recovered(f, c))], 1)

\* The merge has just been done: no file has been written since.
Merged == pc = "A5" /\ idx = 1

\* C4: after the merge, the number of Sections over the 7 categories is the
\* number of Sections recovered from the existing detail files plus the
\* number of Sections parsed from the daily files of the run.
C4_NoDataLossOnMerge ==
    Merged => Total(categorized) = RecoveredTotal(fs) + Len(NewSections(fs, dailyFiles))

C4_Witness ==
    /\ Merged
    /\ RecoveredTotal(fs) > 0
    /\ Len(NewSections(fs, dailyFiles)) > 1

\* The new Sections of category c, in discovery order.
NewOf(f, files, c) ==
    SelectSeq(NewSections(f, files), LAMBDA sec : classifySection(sec.header) = c)

UninterruptedSections(f, order, c) ==
    LET cz == MergeExisting(
                  ClassifyFiles(EmptyCategorized,
                                [i \in 1..Len(order) |-> f.memory[order[i]]]),
                  ExistingDetails(f))
    IN  IF cz[c] = << >> THEN Recovered(f, c)
        ELSE parseSections(DetailContent(c, cz[c]))

\* The run of record h, started in workspace before, was terminated after a
\* detail file had been written and before a daily file was archived.
InterruptedBeforeArchive(h, before) ==
    /\ h.kind = "run"
    /\ ~h.complete
    /\ \E j \in 1..Len(h.log) : h.log[j].op = "write" /\ h.log[j].d = "compressed"
    /\ \A j \in 1..Len(h.log) :
          /\ h.log[j].op # "unlink"
          /\ ~(h.log[j].op = "copy" /\ h.log[j].n \in DOMAIN before.memory)

\* C3: when a run is terminated after a detail file has been written and
\* before the daily files are archived, the next complete run leaves every
\* detail file with the Sections one uninterrupted run would have produced.
C3_InterruptedRunSafety ==
    \A i \in 2..(Len(hist) - 1) :
        ( /\ InterruptedBeforeArchive(hist[i], hist[i - 1].after)
          /\ hist[i + 1].kind = "run"
          /\ hist[i + 1].complete )
        => \E order \in Orderings(Eligible(hist[i - 1].after, hist[i - 1].now)) :
              \A c \in CategorySet :
                  Recovered(hist[i + 1].after, c)
                    = UninterruptedSections(hist[i - 1].after, order, c)

\* ------------------------------------------------------------------------
\* Properties of two runs in a row
\* ------------------------------------------------------------------------

\* The file at path p of workspace f: << >> when there is none.
FileOf(f, p) == IF Exists(f, p) THEN << f[p.d][p.n] >> ELSE << >>

\* Records i and i + 1 of hist are two processes that ran to their end, one
\* right after the other, and wrote what they computed.
TwoRuns(i) ==
    /\ hist[i].kind = "run" /\ hist[i].complete /\ ~hist[i].flags.dryRun
    /\ hist[i + 1].kind = "run" /\ hist[i + 1].complete /\ ~hist[i + 1].flags.dryRun

\* C1: when runBootstrapCompression runs twice in a row, every bootstrap
\* file is after the second run what it was after the first.
C1_BootstrapIdempotence ==
    \A i \in 2..(Len(hist) - 1) :
        ( /\ TwoRuns(i)
          /\ ~hist[i].flags.skipBootstrap
          /\ ~hist[i + 1].flags.skipBootstrap )
        => \A k \in 1..Len(BOOTSTRAP_FILES) :
              FileOf(hist[i + 1].after, Path("root", BOOTSTRAP_FILES[k]))
                = FileOf(hist[i].after, Path("root", BOOTSTRAP_FILES[k]))

\* C2: when runSkillIndex runs twice in a row, TOOLS.md is after the second
\* run what it was after the first.
C2_SkillIndexIdempotence ==
    \A i \in 2..(Len(hist) - 1) :
        ( /\ TwoRuns(i)
          /\ ~hist[i].flags.skipSkills
          /\ ~hist[i + 1].flags.skipSkills )
        => FileOf(hist[i + 1].after, ToolsFile) = FileOf(hist[i].after, ToolsFile)

\* ------------------------------------------------------------------------
\* Properties of the backups
\* ------------------------------------------------------------------------

\* Before operation j of the operations l of a process started in workspace
\* before, the content that the file of operation j had in before was copied
\* to memory/archive.
BackedUp(l, before, j) ==
    \E k \in 1..(j - 1) :
        /\ l[k].op = "copy"
        /\ l[k].d = "archive"
        /\ l[k].text = before[l[j].d][l[j].n]

\* C10: before the running process overwrites a file that existed when it
\* started, it has copied the content that file had to memory/archive.
C10_BackupBeforeModification ==
    \A j \in 1..Len(log) :
        ( /\ log[j].op = "write"
          /\ Exists(hist[Len(hist)].after, Path(log[j].d, log[j].n)) )
        => BackedUp(log, hist[Len(hist)].after, j)

\* ------------------------------------------------------------------------
\* Properties of the detail files
\* ------------------------------------------------------------------------

\* C6: the Sections written to a detail file are the Sections parseSections
\* recovers from that file: as many, with the same headers, fields, bullets
\* and prose, in the same order.
C6_DetailRoundTrip ==
    (output.fn = "roundTrip" /\ output.value.sections # << >>)
        => output.value.again = output.value.sections

\* ------------------------------------------------------------------------
\* Properties of stripExistingMarker
\* ------------------------------------------------------------------------

NoMarker(text) ==
    ~Includes(text, StartMarker("SOUL")) /\ ~Includes(text, EndMarker("SOUL"))

\* The text holds one start marker and one end marker, the end marker after
\* the start marker.
OnePair(text) ==
    /\ Cardinality(Occurrences(text, StartMarker("SOUL"), 1)) = 1
    /\ Cardinality(Occurrences(text, EndMarker("SOUL"), 1)) = 1
    /\ IndexFrom(text, StartMarker("SOUL"), 1) < IndexFrom(text, EndMarker("SOUL"), 1)

\* The text outside the marker span of a text that holds one pair.
Outside(text) ==
    Upto(text, IndexFrom(text, StartMarker("SOUL"), 1) - 1)
      \o From(text, IndexFrom(text, EndMarker("SOUL"), 1) + Len(EndMarker("SOUL")))

\* The characters of s that are no whitespace.
RECURSIVE NonSpace(_)
NonSpace(s) ==
    IF s = "" THEN ""
    ELSE (IF IsSpace(Ch(s, 1)) THEN "" ELSE Ch(s, 1)) \o NonSpace(From(s, 2))

\* The text ends with no whitespace and holds no three line breaks in a row.
Settled(text) == TrimEnd(text) = text /\ ~Includes(text, "\n\n\n")

\* C7 as stated: a text without marker, followed by a blank line, the block
\* and a newline, is stripped to exactly that text.
C7_ExactStrip ==
    (output.fn = "appendStrip" /\ NoMarker(input)) => output.value = input

\* C7: stripping a text that holds one marker pair changes, outside the span,
\* whitespace only; and a text without marker that ends with no whitespace
\* and holds no three line breaks in a row, followed by a blank line, the
\* block and a newline, is stripped to exactly that text.
C7_StripUpToWhitespace ==
    /\ (output.fn = "strip" /\ OnePair(input))
          => /\ NonSpace(output.value) = NonSpace(Outside(input))
             /\ NoMarker(output.value)
    /\ (output.fn = "appendStrip" /\ NoMarker(input))
          => /\ NonSpace(output.value) = NonSpace(input)
             /\ Settled(input) => output.value = input

C7_Witness ==
    /\ output.fn = "appendStrip"
    /\ NoMarker(input)
    /\ Settled(input)
    /\ Includes(input, "## A")
    /\ output.value = input

\* ------------------------------------------------------------------------
\* Properties of classifySection
\* ------------------------------------------------------------------------

\* The order of the categories the classification is specified with.
ClaimedOrder ==
    << "preferences", "decisions", "facts", "entities", "lessons", "todos", "opinions" >>

\* The places in ClaimedOrder of the categories a keyword of which occurs in
\* the lower-cased header.
Hits(header) ==
    { i \in 1..Len(ClaimedOrder) : PatternTest(ClaimedOrder[i], ToLowerCase(header)) }

\* C8: classifySection returns one of the 7 categories: the first one, in
\* the order preferences, decisions, facts, entities, lessons, todos,
\* opinions, a keyword of which occurs in the lower-cased header, and facts
\* when there is none; a second call returns the same.
C8_FirstMatchWins ==
    output.fn = "classify" =>
        /\ output.value \in CategorySet
        /\ output.value =
              IF Hits(input) = {} THEN "facts"
              ELSE ClaimedOrder[CHOOSE i \in Hits(input) : \A j \in Hits(input) : i <= j]
        /\ classifySection(input) = output.value

\* A header with keywords of two categories goes to the first of them.
C8_Witness ==
    /\ output.fn = "classify"
    /\ Cardinality(Hits(input)) = 2
    /\ 1 \notin Hits(input)
    /\ output.value = "decisions"

\* The header holds the word "decision", in upper or lower case.
HasDecision(header) == Includes(ToLowerCase(header), "decision")

\* C9 as stated: a header that holds the word "decision" is classified as
\* decisions.
C9_DecisionHeader ==
    (output.fn = "classify" /\ HasDecision(input)) => output.value = "decisions"

\* A keyword of preferences occurs in the header.
HasPreferenceKeyword(header) ==
    \E w \in {"prefer", "style", "convention", "setting", "config"} :
        Includes(ToLowerCase(header), w)

\* C9: a header that holds the word "decision" and no keyword of preferences
\* is classified as decisions.
C9_DecisionUnlessPreference ==
    (output.fn = "classify" /\ HasDecision(input) /\ ~HasPreferenceKeyword(input))
        => output.value = "decisions"

C9_Witness ==
    /\ output.fn = "classify"
    /\ HasDecision(input)
    /\ ~HasPreferenceKeyword(input)
    /\ Includes(input, "Fact")
    /\ output.value = "decisions"

\* ------------------------------------------------------------------------
\* Properties of the archive
\* ------------------------------------------------------------------------

\* The running process has copied the file named n of memory/, with the text
\* it holds, to memory/archive/.
CopiedToArchive(n) ==
    \E k \in 1..Len(log) :
        /\ log[k].op = "copy"
        /\ log[k].d = "archive"
        /\ log[k].n = n
        /\ log[k].text = fs.memory[n]

\* What one step does to the files of memory/: a file that stays keeps its
\* text, and a file that goes has been copied by the running process to the
\* archive, where the copy still is.
CopyThenDelete ==
    \A n \in DOMAIN fs.memory :
        IF n \in DOMAIN fs'.memory THEN fs'.memory[n] = fs.memory[n]
        ELSE /\ pc # "idle"
             /\ CopiedToArchive(n)
             /\ n \in DOMAIN fs.archive
             /\ fs.archive[n] = fs.memory[n]

\* C11: a daily file is deleted only after the same run has copied it to the
\* archive path; no daily file is deleted without that copy, and no daily
\* file is rewritten in place.
C11_CopyThenDelete == [][CopyThenDelete]_vars

\* A daily file has been copied to the archive and then deleted.
C11_Witness ==
    \E j \in 1..Len(log) :
        /\ log[j].op = "unlink"
        /\ log[j].n \notin DOMAIN fs.memory
        /\ \E k \in 1..(j - 1) : log[k].op = "copy" /\ log[k].n = log[j].n

\* The logs of the processes that have ended and of the one that runs.
Logs == { hist[i].log : i \in 1..Len(hist) } \cup {log}

\* The texts of the files of memory/archive/.
Archived == { fs.archive[a] : a \in DOMAIN fs.archive }

\* C12: after any sequence of runs, the text of every daily file a run has
\* removed from memory/ is the text of some file of memory/archive/.
C12_OriginalsNeverLost ==
    \A l \in Logs : \A j \in 1..Len(l) :
        l[j].op = "unlink" => l[j].text \in Archived

\* ------------------------------------------------------------------------
\* Properties of a run in which a file operation throws
\* ------------------------------------------------------------------------

\* Record i of hist is a process that ended when the write of a detail file
\* (step A5) or of the memory index (step A6) threw.
DetailOrIndexWriteFailed(i) ==
    /\ hist[i].kind = "run"
    /\ hist[i].error \in {"A5", "A6"}

\* C13: when the write of a detail file or of the memory index fails, the
\* process ends there, and at that point it has neither copied a daily file
\* to the archive nor deleted one: memory/ holds what it held at the start
\* of the run and memory/archive/ has gained no file with the name of a
\* daily file.
C13_NoPartialArchive ==
    \A i \in 2..Len(hist) :
        DetailOrIndexWriteFailed(i) =>
            LET before == hist[i - 1].after
                after  == hist[i].after
                l      == hist[i].log
            IN  /\ ~hist[i].complete
                /\ after.memory = before.memory
                /\ \A j \in 1..Len(l) :
                      /\ l[j].op # "unlink"
                      /\ l[j].op = "copy" => l[j].n \notin DOMAIN before.memory
                /\ \A n \in DOMAIN before.memory :
                      n \in DOMAIN after.archive =>
                          /\ n \in DOMAIN before.archive
                          /\ after.archive[n] = before.archive[n]

\* The write of the index has failed after a detail file had been written,
\* with daily files waiting to be archived.
C13_Witness ==
    \E i \in 2..Len(hist) :
        /\ hist[i].kind = "run"
        /\ hist[i].error = "A6"
        /\ \E j \in 1..Len(hist[i].log) :
              hist[i].log[j].op = "write" /\ hist[i].log[j].d = "compressed"
        /\ \E n \in DOMAIN hist[i].after.memory :
              hist[i].now - hist[i].after.mtime[n] >= TWELVE_HOURS

\* The step that follows the workflow step p belongs to: the call of the
\* next workflow in main, or the report after the last one.
AfterWorkflow(p) ==
    CASE p \in {"A2", "A5", "A6", "A7", "A8"} -> "mainB"
      [] p \in {"B1", "B2"}                   -> "mainC"
      [] OTHER                                -> "mainEnd"

\* In this step a file operation of the running process throws.
Throws == Len(hist') > Len(hist) /\ hist'[Len(hist')].error # ""

\* C14: when a file write fails inside one workflow, the run goes on with
\* the next workflow in the fixed order instead of ending.
C14_WorkflowIndependence == [][Throws => pc' = AfterWorkflow(pc)]_vars

\* ------------------------------------------------------------------------
\* Properties of the size ceilings
\* ------------------------------------------------------------------------

\* The log l holds a warning about the file p.
Warned(l, p) == \E j \in 1..Len(l) : l[j].op = "warn" /\ l[j].d = p.d /\ l[j].n = p.n

\* The index has just been written.
IndexWritten == pc = "A7" /\ idx = 1

\* Record i of hist is a process that ran to its end and not as a dry run.
Completed(i) == hist[i].kind = "run" /\ hist[i].complete /\ ~hist[i].flags.dryRun

\* The bootstrap files workspace f holds.
BootstrapPresent(f) ==
    { BOOTSTRAP_FILES[k] : k \in 1..Len(BOOTSTRAP_FILES) } \cap DOMAIN f.root

EntriesBefore(i) ==
    LET before == hist[i - 1].after
        files  == CHOOSE q \in Orderings(Eligible(before, hist[i].now)) : TRUE
    IN  Len(NewSections(before, files)) + RecoveredTotal(before)

\* The number of entries after it: the Sections of the detail files.
EntriesAfter(i) == RecoveredTotal(hist[i].after)

\* The two counts differ by more than 10% of the first.
Drift(i) ==
    LET b == EntriesBefore(i)
        a == EntriesAfter(i)
    IN  10 * (IF a > b THEN a - b ELSE b - a) > b

\* C16: a run after which the entry count differs from the entry count
\* before it by more than 10% has emitted a warning.
C16_DriftFlagged ==
    \A i \in 2..Len(hist) :
        (Completed(i) /\ ~hist[i].flags.skipMemory /\ Drift(i)) =>
            \E j \in 1..Len(hist[i].log) : hist[i].log[j].op = "warn"

\* ------------------------------------------------------------------------
\* Properties of a dry run
\* ------------------------------------------------------------------------

\* The workspace as it was when the running process started.
AtStart == hist[Len(hist)].after

\* C17: with --dry-run the three workflows parse and classify as they do
\* without it, and no file or directory is created, overwritten, copied or
\* deleted: at every step of the run, and after it, the workspace is the
\* workspace the run started in.
C17_DryRunChangesNothing ==
    /\ (pc # "idle" /\ flags.dryRun) =>
          /\ fs = AtStart
          /\ Merged => /\ dailyFiles # << >>
                       /\ \A c \in CategorySet :
                             categorized[c] = Recovered(fs, c) \o NewOf(fs, dailyFiles, c)
    /\ \A i \in 2..Len(hist) :
          (hist[i].kind = "run" /\ hist[i].flags.dryRun) =>
              /\ hist[i].after = hist[i - 1].after
              /\ \A j \in 1..Len(hist[i].log) : hist[i].log[j].op = "warn"

\* A dry run has ended in a workspace in which each workflow had a file to
\* write.
C17_Witness ==
    \E i \in 2..Len(hist) :
        /\ hist[i].kind = "run"
        /\ hist[i].flags.dryRun
        /\ hist[i].complete
        /\ Eligible(hist[i].after, hist[i].now) # {}
        /\ BootstrapPresent(hist[i].after) # {}
        /\ skills.exists /\ SkillEntries(skills.dirs) # << >>
        /\ hist[i].after = hist[i - 1].after

\* ------------------------------------------------------------------------
\* Properties of the input selection
\* ------------------------------------------------------------------------

\* The files a memory-consolidation run started in workspace f at time t is
\* to process: directly in memory/, named *.md, not named MEMORY.md and at
\* least twelve hours old.
Selected(f, t) ==
    { n \in DOMAIN f.memory :
        /\ Len(n) >= 3 /\ SubSeq(n, Len(n) - 2, Len(n)) = ".md"
        /\ n # "MEMORY.md"
        /\ t - f.mtime[n] >= 12 * 3600 * 1000 }

\* The elements of the sequence q.
Range(q) == { q[k] : k \in 1..Len(q) }

\* C18: a run parses and merges exactly the files of Selected, and a run
\* that reaches its end has archived and deleted exactly these; every other
\* file of memory/ is left as it was, and nothing of memory/archive/ or
\* memory/compressed/ is an input.
C18_InputSelection ==
    /\ pc \in {"A4", "A5", "A6"} => Range(dailyFiles) = Selected(fs, now)
    /\ Merged =>
          Total(categorized) =
              RecoveredTotal(fs)
                + Len(NewSections(fs, CHOOSE q \in Orderings(Selected(fs, now)) : TRUE))
    /\ \A i \in 2..Len(hist) :
          Completed(i) =>
            LET before == hist[i - 1].after
                after  == hist[i].after
            IN  \A n \in DOMAIN before.memory :
                  IF n \in Selected(before, hist[i].now)
                  THEN /\ n \notin DOMAIN after.memory
                       /\ n \in DOMAIN after.archive
                       /\ after.archive[n] = before.memory[n]
                  ELSE /\ n \in DOMAIN after.memory
                       /\ after.memory[n] = before.memory[n]
                       /\ after.mtime[n] = before.mtime[n]
                       /\ n \in DOMAIN after.archive => n \in DOMAIN before.archive

\* A run has processed a file of exactly twelve hours and left alone a file
\* of two hours, a file that is no markdown file and memory/MEMORY.md, with
\* memory/archive/ and memory/compressed/ in place.
C18_Witness ==
    \E i \in 2..Len(hist) :
        /\ Completed(i)
        /\ {"memory/archive", "memory/compressed"} \subseteq hist[i - 1].after.dirs
        /\ \E n \in Selected(hist[i - 1].after, hist[i].now) :
              hist[i].now - hist[i - 1].after.mtime[n] = TWELVE_HOURS
        /\ \E n \in DOMAIN hist[i].after.memory :
              hist[i].now - hist[i].after.mtime[n] = Hours(2)
        /\ {"notes.txt", "MEMORY.md"} \subseteq DOMAIN hist[i].after.memory

\* ------------------------------------------------------------------------
\* Properties of missing input
\* ------------------------------------------------------------------------

\* The log l holds an operation on a file named n.
Touched(l, n) == \E j \in 1..Len(l) : l[j].n = n

\* The files of memory/archive/ that are backups of the bootstrap file name.
BackupsOf(f, name) ==
    { a \in DOMAIN f.archive : StartsAt(a, 1, DropMd(name) \o "-") }

\* C19: when memory/ is absent, runMemoryConsolidation returns with the
\* workspace as it was; a bootstrap file that is absent is not created and
\* not backed up, and the bootstrap files that exist are still written; when
\* the skills directory is absent, TOOLS.md is left as it was.
C19_MissingInput ==
    /\ (pc = "mainB" /\ ~flags.skipMemory /\ "memory" \notin AtStart.dirs) =>
          /\ fs = AtStart
          /\ log = << >>
    /\ (pc = "mainC" /\ ~flags.skipBootstrap) =>
          \A k \in 1..Len(BOOTSTRAP_FILES) :
              LET name == BOOTSTRAP_FILES[k]
              IN  IF name \in DOMAIN AtStart.root
                  THEN ~flags.dryRun =>
                          \E j \in 1..Len(log) : log[j].op = "write" /\ log[j].n = name
                  ELSE /\ name \notin DOMAIN fs.root
                       /\ BackupsOf(fs, name) = BackupsOf(AtStart, name)
                       /\ ~Touched(log, name)
    /\ (pc = "mainEnd" /\ ~flags.skipSkills /\ ~skills.exists) =>
          /\ FileOf(fs, ToolsFile) = FileOf(AtStart, ToolsFile)
          /\ ~Touched(log, "TOOLS.md")

\* A run without --dry-run has reached its end in a workspace without
\* memory/ and without skills directory, with MEMORY.md and TOOLS.md in
\* place, with USER.md and without the bootstrap files before and after it.
C19_Witness ==
    /\ pc = "mainEnd"
    /\ ~flags.dryRun
    /\ "memory" \notin AtStart.dirs
    /\ ~skills.exists
    /\ {"MEMORY.md", "TOOLS.md"} \subseteq DOMAIN AtStart.root
    /\ BootstrapPresent(AtStart) = {"USER.md"}
    /\ \E j \in 1..Len(log) : log[j].op = "write" /\ log[j].n = "USER.md"
    /\ fs.root["MEMORY.md"] = AtStart.root["MEMORY.md"]

\* ------------------------------------------------------------------------
\* Properties of parseSections
\* ------------------------------------------------------------------------

\* The lines of a text outside its front-matter block.
BodyLines(text) == SplitLines(stripFrontmatter(text))

\* The numbers of the set S that lie in 1..n, in ascending order.
Ascending(S, n) == SelectSeq([i \in 1..n |-> i], LAMBDA i : i \in S)

\* What a line is, by the priority of the parser.
Kind(line) ==
    IF HeaderMatch(line).ok THEN "heading"
    ELSE IF FieldMatch(line).ok THEN "field"
    ELSE IF BulletMatch(line).ok THEN "bullet"
    ELSE IF Trim(line) # "" THEN "prose"
    ELSE "blank"

\* The places of the headings of lines, in ascending order.
Headings(lines) == Ascending({ i \in 1..Len(lines) : Kind(lines[i]) = "heading" }, Len(lines))

\* The places of the lines of the given kind in the k-th Section of lines:
\* after its heading and before the next one.
Body(lines, k, kind) ==
    LET hs   == Headings(lines)
        last == IF k < Len(hs) THEN hs[k + 1] - 1 ELSE Len(lines)
    IN  Ascending({ i \in (hs[k] + 1)..last : Kind(lines[i]) = kind }, Len(lines))

\* The fields the field lines at the places is set: for each key, the value
\* of the last line with that key.
FieldsSet(lines, is) ==
    { [k |-> FieldMatch(lines[is[a]]).key, v |-> FieldMatch(lines[is[a]]).text] :
        a \in { a \in 1..Len(is) :
                  \A b \in (a + 1)..Len(is) :
                      FieldMatch(lines[is[b]]).key # FieldMatch(lines[is[a]]).key } }

\* The Sections sections are what the line rules give for lines.
FollowsLineRules(lines, sections) ==
    /\ Len(sections) = Len(Headings(lines))
    /\ \A k \in 1..Len(sections) :
          LET sec     == sections[k]
              bullets == Body(lines, k, "bullet")
              prose   == Body(lines, k, "prose")
          IN  /\ sec.header = HeaderMatch(lines[Headings(lines)[k]]).text
              /\ Range(sec.fields) = FieldsSet(lines, Body(lines, k, "field"))
              /\ Len(sec.fields) = Cardinality(Range(sec.fields))
              /\ sec.bullets = [a \in 1..Len(bullets) |-> BulletMatch(lines[bullets[a]]).text]
              /\ sec.prose = Join([a \in 1..Len(prose) |-> Trim(lines[prose[a]])], " ")

\* C20: parseSections gives a result for every text, and each line outside
\* the front-matter block has one effect: a heading closes the open Section
\* and opens a new one; in an open Section a field line sets a field, else
\* a bullet line appends a bullet, else a non-blank line is appended to the
\* prose after one space, else nothing; the lines before the first heading
\* go to no Section, and a text without heading gives no Section.
C20_LineClassification ==
    output.fn = "roundTrip" =>
        FollowsLineRules(BodyLines(input), output.value.sections)

\* ------------------------------------------------------------------------
\* Properties of the Sections and of their block
\* ------------------------------------------------------------------------

\* C21: every Section parseSections returns has a header that is not empty.
C21_NonEmptyHeader ==
    output.fn \in {"roundTrip", "serialize"} =>
        \A i \in 1..Len(output.value.sections) : output.value.sections[i].header # ""

\* The entries the forward contract gives a Section: its fields as key:value
\* in field order, then its bullets, and the start of the prose when there is
\* neither field nor bullet.
EntriesOf(sec) ==
    LET fields  == [i \in 1..Len(sec.fields) |->
                       slugify(sec.fields[i].k) \o ":" \o slugifyValue(sec.fields[i].v)]
        bullets == [i \in 1..Len(sec.bullets) |-> slugifyValue(sec.bullets[i])]
    IN  IF Len(sec.fields) + Len(sec.bullets) > 0 THEN fields \o bullets
        ELSE IF sec.prose = "" THEN << >>
        ELSE << slugifyValue(SubSeq(sec.prose, 1,
                                    IF Len(sec.prose) > 120 THEN 120 ELSE Len(sec.prose))) >>

\* The groups of the Sections that have an entry, in the order of the Sections.
GroupsOf(sections) ==
    LET kept == SelectSeq(sections, LAMBDA sec : Len(EntriesOf(sec)) > 0)
    IN  Join([i \in 1..Len(kept) |->
                 "|" \o ToUpperCase(slugify(kept[i].header)) \o ":{"
                     \o Join(EntriesOf(kept[i]), ",") \o "}"], "")

\* C22: the block of serializeSections is the open marker, the title in
\* brackets, one group per Section that has an entry, in input order, keyed
\* by the upper-cased normalized header, and the close marker; the entries
\* of a group are the fields as key:value, then the bullets, and the first
\* 120 characters of the prose, normalized, only when the Section has
\* neither; bullets warm, professional under Tone and concise under Style
\* give |TONE:{warm,professional}|STYLE:{concise}.
C22_ForwardSerialization ==
    output.fn = "serialize" =>
        /\ output.value.block =
              "<!-- SOUL-START -->[SOUL]" \o GroupsOf(output.value.sections)
                  \o "<!-- SOUL-END -->"
        /\ input = "## Tone\n- warm\n- professional\n\n## Style\n- concise\n" =>
              output.value.block =
                  "<!-- SOUL-START -->[SOUL]|TONE:{warm,professional}|STYLE:{concise}<!-- SOUL-END -->"

\* A Section with a field, a bullet and prose has been serialized: the group
\* holds the field and the bullet, and not the prose.
C22_Witness ==
    /\ output.fn = "serialize"
    /\ input = "## Tone (new)\n- **Main  Voice:** warm  and\tkind\n- [calm]\nmore text\n"
    /\ output.value.sections[1].prose = "more text"
    /\ output.value.block =
          "<!-- SOUL-START -->[SOUL]|TONE-NEW:{main-voice:warm-and-kind,calm}<!-- SOUL-END -->"

\* C23: the block of serializeSections holds no line break, whatever the
\* Sections parseSections returned hold.
C23_SinglePhysicalLine ==
    output.fn = "serialize" => ~Includes(output.value.block, "\n")

\* A text of several lines whose prose runs over two lines has been
\* serialized: the group holds that prose.
C23_Witness ==
    /\ output.fn = "serialize"
    /\ input = "## A\ntext\ntext"
    /\ output.value.block = "<!-- SOUL-START -->[SOUL]|A:{text-text}<!-- SOUL-END -->"

\* ------------------------------------------------------------------------
\* Properties of the detail files and of the index
\* ------------------------------------------------------------------------

\* No process runs, and the last record of hist is a run of memory
\* consolidation that ran to its end, not as a dry run, and processed a
\* daily file.
Consolidated ==
    LET r == hist[Len(hist)]
    IN  /\ pc = "idle"
        /\ r.kind = "run"
        /\ r.complete
        /\ ~r.flags.dryRun
        /\ \E j \in 1..Len(r.log) : r.log[j].op = "unlink"

\* The workspace that run started from, and the one it left.
Before == hist[Len(hist) - 1].after
After == hist[Len(hist)].after

\* The Sections parsed from the daily files that run processed.
NewlyParsed ==
    LET done == SelectSeq(hist[Len(hist)].log, LAMBDA e : e.op = "unlink")
    IN  Flatten([k \in 1..Len(done) |-> parseSections(done[k].text)])

\* The categories whose detail file that run wrote.
DetailsWritten ==
    { c \in CategorySet :
        \E j \in 1..Len(hist[Len(hist)].log) :
            LET e == hist[Len(hist)].log[j]
            IN  e.op = "write" /\ e.d = "compressed" /\ e.n = c \o ".md" }

\* The lines of a Section in a detail file.
SectionText(sec) ==
    "## " \o sec.header \o "\n\n"
      \o Join([i \in 1..Len(sec.fields) |->
                  "- **" \o sec.fields[i].k \o ":** " \o sec.fields[i].v \o "\n"], "")
      \o Join([i \in 1..Len(sec.bullets) |-> "- " \o sec.bullets[i] \o "\n"], "")
      \o (IF sec.prose = "" THEN "" ELSE "\n" \o sec.prose \o "\n")

\* The detail file of category c of workspace f holds text.
DetailHolds(f, c, text) ==
    /\ (c \o ".md") \in DOMAIN f.compressed
    /\ Includes(f.compressed[c \o ".md"], text)

\* C24: after a run of memory consolidation, every newly parsed Section is
\* in the detail file of the category classifySection gives its header, which
\* that run wrote, and under its heading in no other detail file; the index
\* has a group that names <c>.md for exactly the categories whose merged
\* sequence of Sections is not empty, which are exactly the categories whose
\* detail file that run wrote.
C24_RoutingAndIndexCoverage ==
    Consolidated =>
        /\ \A k \in 1..Len(NewlyParsed) :
              LET sec == NewlyParsed[k]
                  c   == classifySection(sec.header)
              IN  /\ c \in DetailsWritten
                  /\ DetailHolds(After, c, SectionText(sec))
                  /\ \A d \in CategorySet \ {c} :
                        ~DetailHolds(After, d, "## " \o sec.header \o "\n")
        /\ \A c \in CategorySet :
              /\ Includes(After.root["MEMORY.md"], "{" \o c \o ".md,") <=> c \in DetailsWritten
              /\ c \in DetailsWritten <=>
                    \/ Recovered(Before, c) # << >>
                    \/ \E k \in 1..Len(NewlyParsed) :
                          classifySection(NewlyParsed[k].header) = c

\* A run has processed a Section headed Decision: database and one headed
\* Fact: deployment: decisions.md holds the first, facts.md the second, and
\* the index names both files.
C24_Witness ==
    /\ Consolidated
    /\ \E k \in 1..Len(NewlyParsed) : NewlyParsed[k].header = "Decision: database"
    /\ \E k \in 1..Len(NewlyParsed) : NewlyParsed[k].header = "Fact: deployment"
    /\ DetailHolds(After, "decisions", "## Decision: database\n")
    /\ DetailHolds(After, "facts", "## Fact: deployment\n")
    /\ Includes(After.root["MEMORY.md"], "DECISION:{decisions.md,decision-database}")
    /\ Includes(After.root["MEMORY.md"], "FACT:{facts.md,")

\* ------------------------------------------------------------------------
\* Properties of the size of a block
\* ------------------------------------------------------------------------

\* The number of bytes of text in UTF-8: the characters of the model take one
\* byte each, but for the ideograph, which takes three.
Utf8Length(text) ==
    Len(text) + 2 * Cardinality({ j \in 1..Len(text) : Ch(text, j) = "日" })

\* C25: the block generated for a bootstrap file of less than 1500
\* characters is at most 2048 bytes long.
C25_SizeBound ==
    pc = "B2" /\ Len(content) < 1500 =>
        Utf8Length(BootstrapBlock(BOOTSTRAP_FILES[idx], content)) <= 2048

\* ------------------------------------------------------------------------
\* Properties of the fields of a Section
\* ------------------------------------------------------------------------

\* The fields the field lines at the places is give when every key keeps the
\* place of its first line and takes the value of its last line.
InsertionOrder(lines, is) ==
    LET key(a) == FieldMatch(lines[is[a]]).key
        first  == SelectSeq([a \in 1..Len(is) |-> a],
                            LAMBDA a : \A b \in 1..(a - 1) : key(b) # key(a))
        last(a) == CHOOSE b \in 1..Len(is) :
                      /\ key(b) = key(a)
                      /\ \A c \in (b + 1)..Len(is) : key(c) # key(a)
    IN  [j \in 1..Len(first) |->
            [k |-> key(first[j]), v |-> FieldMatch(lines[is[last(first[j])]]).text]]

\* C26: the fields of a Section are enumerated, by the serializer and by the
\* writer of the detail files, in the order in which the parser first met
\* their keys; a later field line with a key that is present replaces the
\* value and adds no field.
C26_FieldOrderAndOverwrite ==
    output.fn \in {"roundTrip", "serialize"} =>
        \A k \in 1..Len(output.value.sections) :
            LET sec    == output.value.sections[k]
                fields == InsertionOrder(BodyLines(input),
                                         Body(BodyLines(input), k, "field"))
            IN  /\ sec.fields = fields
                /\ output.fn = "serialize" =>
                      Includes(output.value.block,
                               Join([i \in 1..Len(fields) |->
                                        slugify(fields[i].k) \o ":"
                                            \o slugifyValue(fields[i].v)], ","))
                /\ output.fn = "roundTrip" =>
                      Includes(output.value.text,
                               Join([i \in 1..Len(fields) |->
                                        "- **" \o fields[i].k \o ":** " \o fields[i].v \o "\n"],
                                    ""))

\* ------------------------------------------------------------------------
\* Properties of bootstrap compression
\* ------------------------------------------------------------------------

\* The process writes a bootstrap file back.
WritesBack == pc = "B2" /\ pc' # "idle"

PairLeft(text) ==
    \E s \in Occurrences(text, StartMarker("SOUL"), 1) :
        Occurrences(text, EndMarker("SOUL"), s + Len(StartMarker("SOUL"))) # {}

\* C28: in the result of stripExistingMarker no start marker of the tag is
\* followed later by an end marker of the tag, and stripExistingMarker
\* returns that result unchanged.
C28_StripsEveryPair ==
    output.fn = "strip" =>
        /\ ~PairLeft(output.value)
        /\ stripExistingMarker(output.value, "SOUL") = output.value

\* A text with two marker pairs has been stripped: both spans are gone.
C28_Witness ==
    /\ output.fn = "strip"
    /\ Cardinality(Occurrences(input, StartMarker("SOUL"), 1)) = 2
    /\ Cardinality(Occurrences(input, EndMarker("SOUL"), 1)) = 2
    /\ StartsAt(input, 1, "a\n")
    /\ output.value = "a\nb"

\* ------------------------------------------------------------------------
\* Properties of a run of memory consolidation that finds no daily file
\* ------------------------------------------------------------------------

\* The workspace the running process started from.
AtRunStart == hist[Len(hist)].after

\* The running process is one that memory/ gives no daily file to process.
NothingEligible ==
    /\ pc # "idle"
    /\ "memory" \in AtRunStart.dirs
    /\ Eligible(AtRunStart, now) = {}

\* C29: when memory/ exists and holds no eligible daily file,
\* runMemoryConsolidation leaves MEMORY.md, the detail files and the daily
\* files as they are; all it may do is copy MEMORY.md to a backup file of
\* memory/archive.
C29_NothingEligible ==
    NothingEligible =>
        /\ fs.root = AtRunStart.root
        /\ fs.compressed = AtRunStart.compressed
        /\ fs.memory = AtRunStart.memory
        /\ fs.mtime = AtRunStart.mtime
        /\ \A n \in DOMAIN AtRunStart.archive :
              /\ n \in DOMAIN fs.archive
              /\ StartsAt(n, 1, "MEMORY-") \/ fs.archive[n] = AtRunStart.archive[n]
        /\ \A n \in DOMAIN fs.archive :
              \/ n \in DOMAIN AtRunStart.archive /\ fs.archive[n] = AtRunStart.archive[n]
              \/ /\ StartsAt(n, 1, "MEMORY-")
                 /\ "MEMORY.md" \in DOMAIN AtRunStart.root
                 /\ fs.archive[n] = AtRunStart.root["MEMORY.md"]
        /\ \A j \in 1..Len(log) :
              log[j].op = "copy" /\ log[j].d = "archive" /\ StartsAt(log[j].n, 1, "MEMORY-")

\* A run has ended in a workspace whose only daily file is younger than
\* twelve hours: the file and MEMORY.md are as before, and memory/archive
\* holds a backup of MEMORY.md.
C29_Witness ==
    /\ NothingEligible
    /\ pc = "mainEnd"
    /\ DOMAIN fs.memory = {"2026-11-01.md"}
    /\ "MEMORY.md" \in DOMAIN fs.root
    /\ Len(log) = 1
    /\ Cardinality(DOMAIN fs.archive) = Cardinality(DOMAIN AtRunStart.archive) + 1

\* ------------------------------------------------------------------------
\* Properties of MEMORY.md after a run of memory consolidation
\* ------------------------------------------------------------------------

\* The text is one index line and a line break.
IsIndexLine(text) ==
    /\ StartsAt(text, 1, "<!-- MEMORY-INDEX-START -->[Memory Index]|root:./memory/compressed|")
    /\ StartsAt(text, Len(text) - Len("<!-- MEMORY-INDEX-END -->"), "<!-- MEMORY-INDEX-END -->\n")
    /\ Occurrences(text, "\n", 1) = {Len(text)}
    /\ Cardinality(Occurrences(text, "<!-- MEMORY-INDEX-START -->", 1)) = 1

\* The Sections of a sequence, as a set.
SectionsIn(sections) == { sections[k] : k \in 1..Len(sections) }

\* C30: after a run of memory consolidation that processed a daily file (and
\* was no dry run), MEMORY.md is one index line and a line break; the text it
\* held before is in a backup file of memory/archive, and none of its
\* Sections has gone to a detail file.
C30_IndexReplacesMemory ==
    Consolidated =>
        /\ IsIndexLine(After.root["MEMORY.md"])
        /\ "MEMORY.md" \in DOMAIN Before.root =>
              /\ \E n \in DOMAIN After.archive :
                    /\ StartsAt(n, 1, "MEMORY-")
                    /\ After.archive[n] = Before.root["MEMORY.md"]
              /\ \A c \in CategorySet :
                    SectionsIn(Recovered(After, c)) \cap
                        SectionsIn(parseSections(Before.root["MEMORY.md"]))
                      \subseteq SectionsIn(Recovered(Before, c)) \cup SectionsIn(NewlyParsed)

\* A run has processed a daily file in a workspace whose MEMORY.md held a
\* Section written by hand: MEMORY.md is the index line, and the Section is
\* in the backup only.
C30_Witness ==
    /\ Consolidated
    /\ "MEMORY.md" \in DOMAIN Before.root
    /\ Includes(Before.root["MEMORY.md"], "## Fact: old\n- kept by hand\n")
    /\ Cardinality(DOMAIN Before.archive) = 0
    /\ After.root["MEMORY.md"] =
          "<!-- MEMORY-INDEX-START -->[Memory Index]|root:./memory/compressed|Read file for full context."
              \o "|DECISION:{decisions.md,decision-database}<!-- MEMORY-INDEX-END -->\n"
    /\ \A c \in CategorySet : ~DetailHolds(After, c, "kept by hand")
    /\ \E n \in DOMAIN After.archive : Includes(After.archive[n], "kept by hand")

====
